---- MODULE Spec2Model ----
(***************************************************************************)
(* The batched immediate-mode renderer of square2-core: the Graphics       *)
(* facade (src/src/graphics/graphics.ts) driving the shape batch           *)
(* (renderers/shapeRenderer.ts) and the image batch                        *)
(* (renderers/imageRenderer.ts).                                           *)
(*                                                                         *)
(* A primitive is one triangle (shape batch) or one quad (image batch).    *)
(* The vertex buffers are modelled per primitive slot: slot i of a buffer  *)
(* holds the tag of the primitive last written there.  A tag names the     *)
(* Graphics call that produced the primitive (its ordinal) and the texture *)
(* source the primitive was meant for.  gl.drawElements is modelled by     *)
(* appending one record to drawCalls.                                      *)
(*                                                                         *)
(* Color and Mat4 are mutable objects shared by reference: each lives in a *)
(* heap (colors, mats) and fields hold object ids.  A Mat4 value is the    *)
(* sequence of the caller's matrices multiplied into it, the identity      *)
(* being the empty sequence and Mat4.multiply concatenation.               *)
(***************************************************************************)
EXTENDS Integers, Sequences, FiniteSets, TLC

\* baseRenderer.ts:17 sets BUFFER_SIZE = 4000; the model runs the same guards
\* against a small capacity.
BUFFER_SIZE == 2

\* Graphics calls per behaviour: enough for capacity + 1 appends and a commit.
MaxOps == BUFFER_SIZE + 2

\* Longest text: more than two capacities of glyphs.
MaxTextLen == 2 * BUFFER_SIZE + 1

\* graphics.ts:15 sets MAX_TRANSFORM_STACK = 128 and graphics.ts:14 sets
\* MAX_TARGET_STACK = 64; the model runs the same guards against small ceilings.
MAX_TRANSFORM_STACK == 3

MAX_TARGET_STACK == 2

\* Graphics calls per behaviour of the stack operations alone: enough to fill
\* the transform stack, be refused once more and pop.
MaxStackOps == MAX_TRANSFORM_STACK + 1

\* Graphics calls per behaviour when drawing is mixed with changes of color,
\* transform, shader and target: a draw, a change and a commit.
MaxCtxOps == BUFFER_SIZE + 1

\* Calls per behaviour when the shape renderer's methods are called directly.
MaxRendererOps == BUFFER_SIZE + 1

None == "none"

\* Image objects the caller may draw; compared by identity.
Images == {"atlas", "imgB"}

\* RenderTarget objects the caller may draw.
Targets == {"rtA", "rtB"}

Fonts == {"font"}

\* BitmapFont.image: the atlas the font's glyphs are packed in.
FontImage(font) == "atlas"

\* BitmapFont.getCharData(char): "g" has a glyph entry, "x" has none.
HasCharData(font, char) == char = "g"

Glyphs(n) == [i \in 1..n |-> "g"]

TextLens == {0, 1, BUFFER_SIZE + 1, MaxTextLen}

Texts == {Glyphs(n) : n \in TextLens} \cup {<<"x">>, <<"g", "x", "g">>}

\* Number of characters of text that have a glyph entry.
GlyphCount(font, text) == Cardinality({i \in 1..Len(text) : HasCharData(font, text[i])})

\* Color values: new Color(1, 1, 1, 1) and two tints the caller may set.
White == "white"

ColorValues == {"red", "blue"}

\* new Mat4(): the identity.
Identity == <<>>

\* Matrices the caller passes to pushTransform and applyTransform.
MatArgs == {<<"m1">>, <<"m2">>}

\* The renderers' built-in shaders and the shaders the caller may bind.
DefaultShapeShader == [name |-> "shapeDefault", type |-> "shape"]

DefaultImageShader == [name |-> "imageDefault", type |-> "image"]

UserShaders == {[name |-> "userShape", type |-> "shape"],
                [name |-> "userImage", type |-> "image"]}

\* setShader() called without a shader.
NoShader == [name |-> "none", type |-> "none"]

\* pushTransform() called without a matrix, or with one of the caller's.
TransformArgs ==
    {[given |-> FALSE, value |-> Identity]}
        \cup {[given |-> TRUE, value |-> m] : m \in {<<"m1">>}}

\* A projection is modelled by the surface whose size it was made for: the
\* canvas, a render target, or none for the identity of new Mat4().
Canvas == "canvas"
Unsized == "unsized"

\* No geometry function applied yet.
NoProbe == [fn |-> "none"]

\* audio.ts:49 creates 32 channels; the model runs the same loops over a
\* small number of them.
CHANNEL_COUNT == 2

ChannelIds == 0..(CHANNEL_COUNT - 1)

\* new AudioChannel(gain): no sound, no source (0), volume 1 (in hundredths).
NewAudioChannel ==
    [sound |-> None, source |-> 0, loop |-> 0, ended |-> FALSE, paused |-> FALSE,
     volume |-> 100]

\* No call made yet.
NoReturn == [call |-> "none"]

\* The names services are registered under, and the value of a missing key.
ServiceNames == {"assets", "audio"}
Undefined == [kind |-> "undefined"]

\* The events of an Emitter.
Events == {"tick", "resize"}

\* No emit made yet.
NoEmit == [event |-> None, atStart |-> <<>>, invoked |-> <<>>]

VARIABLES
    shapeIndex,     \* ShapeRenderer.index
    shapeBuf,       \* ShapeRenderer.vertexIndices, one tag per triangle slot
    imageIndex,     \* ImageRenderer.index
    imageBuf,       \* ImageRenderer.vertexIndices, one tag per quad slot
    currentImage,   \* ImageRenderer.currentImage
    currentTarget,  \* ImageRenderer.currentTarget
    drawCalls,      \* the gl.drawElements calls issued so far, in order
    wroteBeyond,    \* some vertex write addressed a slot >= BUFFER_SIZE
    thrown,         \* the last Graphics call ended by throwing
    history,        \* the Graphics calls made so far, in order
    colors,         \* the Color objects, by id: their values
    mats,           \* the Mat4 objects, by id: their values
    pool,           \* Mat4.POOL
    color,          \* Graphics.color
    transformStack, \* Graphics.transformStack
    targetStack,    \* Graphics.targetStack
    framebuffer,    \* the framebuffer bound to gl.FRAMEBUFFER (None: the canvas)
    shapeColor,     \* ShapeRenderer.color
    shapeTransform, \* ShapeRenderer.transform
    shapeShader,    \* ShapeRenderer.shader
    imageColor,     \* ImageRenderer.color
    imageTransform, \* ImageRenderer.transform
    imageShader,    \* ImageRenderer.shader
    shapeProjection, \* ShapeRenderer.projection: the surface it is sized to
    imageProjection, \* ImageRenderer.projection: the surface it is sized to
    probe,          \* the geometry function applied last, with its arguments
    audioChannels,  \* Audio.audioChannels, by channel id
    mainGain,       \* Audio.mainGain.gain.value, in hundredths
    sources,        \* the AudioBufferSourceNodes created, by id
    audioReturn,    \* the last Audio call, with what it returned
    container,      \* CONTAINER of di/services.ts, by name
    added,          \* by name, the service added last and not removed since
    serviceReturn,  \* the last getService call, with what it returned
    handlers,       \* Emitter.handlers, by event: the lists of handlers
    registry,       \* the EmitHandler objects created, by id
    emitLog,        \* the last emit: the handlers at its start and the calls
    requested,      \* the asset list given to Assets.loadAll
    loadState,      \* per listed asset, the state of its load
    loaded,         \* the counter loaded of loadAll
    promise         \* the promise that loadAll returned

vars == <<shapeIndex, shapeBuf, imageIndex, imageBuf, currentImage, currentTarget,
          drawCalls, wroteBeyond, thrown, history, colors, mats, pool, color,
          transformStack, targetStack, framebuffer, shapeColor, shapeTransform,
          shapeShader, imageColor, imageTransform, imageShader,
          shapeProjection, imageProjection, probe, audioChannels, mainGain,
          sources, audioReturn, container, added, serviceReturn, handlers,
          registry, emitLog, requested, loadState, loaded, promise>>

\* The state of each part of the library outside the renderers.
audioVars == <<audioChannels, mainGain, sources, audioReturn>>
serviceVars == <<container, added, serviceReturn>>
emitterVars == <<handlers, registry, emitLog>>
assetVars == <<requested, loadState, loaded, promise>>
libraryVars == <<audioVars, serviceVars, emitterVars, assetVars>>

\* The values the fields take.
TypeOK ==
    /\ shapeIndex \in Nat
    /\ imageIndex \in Nat
    /\ Len(shapeBuf) <= BUFFER_SIZE
    /\ Len(imageBuf) <= BUFFER_SIZE
    /\ currentImage \in Images \cup {None}
    /\ currentTarget \in Targets \cup {None}
    /\ \A k \in 1..Len(drawCalls) : drawCalls[k].kind \in {"shape", "image"}
    /\ wroteBeyond \in BOOLEAN
    /\ thrown \in BOOLEAN
    /\ Len(history) <= MaxOps
    /\ \A k \in 1..Len(colors) : colors[k] \in ColorValues \cup {White}
    /\ color \in 1..Len(colors)
    /\ shapeColor \in 1..Len(colors)
    /\ imageColor \in 1..Len(colors)
    /\ \A k \in 1..Len(transformStack) : transformStack[k] \in 1..Len(mats)
    /\ \A k \in 1..Len(pool) : pool[k] \in 1..Len(mats)
    /\ shapeTransform \in 1..Len(mats)
    /\ imageTransform \in 1..Len(mats)
    /\ \A k \in 1..Len(targetStack) : targetStack[k] \in Targets
    /\ framebuffer \in Targets \cup {None}
    /\ shapeShader \in UserShaders \cup {DefaultShapeShader, DefaultImageShader}
    /\ imageShader \in UserShaders \cup {DefaultShapeShader, DefaultImageShader}
    /\ shapeProjection \in Targets \cup {Canvas, Unsized}
    /\ imageProjection \in Targets \cup {Canvas, Unsized}

\* The renderer state as one value, so that a method is an operator from state
\* to state and a Graphics call is the composition of the methods it calls.
State ==
    [shapeIndex |-> shapeIndex, shapeBuf |-> shapeBuf,
     imageIndex |-> imageIndex, imageBuf |-> imageBuf,
     currentImage |-> currentImage, currentTarget |-> currentTarget,
     drawCalls |-> drawCalls, wroteBeyond |-> wroteBeyond,
     colors |-> colors, mats |-> mats, framebuffer |-> framebuffer,
     shapeColor |-> shapeColor, shapeTransform |-> shapeTransform,
     shapeShader |-> shapeShader,
     imageColor |-> imageColor, imageTransform |-> imageTransform,
     imageShader |-> imageShader,
     shapeProjection |-> shapeProjection, imageProjection |-> imageProjection]

Tag(src) == [op |-> Len(history) + 1, src |-> src]

\* The vertices one primitive leaves in the buffer: positions already
\* multiplied by the transform and the color's four components, both copied
\* as numbers; and, for the properties, the shader and the framebuffer that
\* were current at the append.
Vertices(tag, c, m, shader, fb) ==
    [op |-> tag.op, src |-> tag.src, color |-> c, pos |-> m,
     shader |-> shader, fb |-> fb]

\* Write one primitive's vertices at slot index of a Float32Array that holds
\* BUFFER_SIZE primitives: a write past the end of a typed array is dropped.
WriteSlot(buf, index, tag) ==
    IF index >= BUFFER_SIZE THEN buf
    ELSE IF index < Len(buf) THEN [buf EXCEPT ![index + 1] = tag]
    ELSE Append(buf, tag)

\* The slots a draw call of index primitives reads from the uploaded buffer.
Drawn(buf, index) == SubSeq(buf, 1, IF index < Len(buf) THEN index ELSE Len(buf))

(***************************************************************************)
(* ShapeRenderer                                                           *)
(***************************************************************************)

ShapeDrawBatch(s) ==
    IF s.shapeIndex = 0 THEN s
    ELSE [s EXCEPT
            !.drawCalls = Append(@, [kind |-> "shape", tex |-> None,
                                     count |-> s.shapeIndex,
                                     prims |-> Drawn(s.shapeBuf, s.shapeIndex),
                                     shader |-> s.shapeShader,
                                     fb |-> s.framebuffer]),
            !.shapeIndex = 0,
            !.shapeBuf = <<>>]

ShapeUpdateBuffer(s, tag) ==
    [s EXCEPT !.shapeBuf = WriteSlot(@, s.shapeIndex,
                                     Vertices(tag, s.colors[s.shapeColor],
                                              s.mats[s.shapeTransform],
                                              s.shapeShader, s.framebuffer)),
              !.wroteBeyond = @ \/ s.shapeIndex >= BUFFER_SIZE]

\* drawSolidTriangle with the capacity test off by one: flushes one append late.
ShapeDrawSolidTriangleLate(s, tag) ==
    LET c == IF s.shapeIndex > BUFFER_SIZE THEN ShapeDrawBatch(s) ELSE s
        w == ShapeUpdateBuffer(c, tag)
    IN  [w EXCEPT !.shapeIndex = @ + 1]

ShapeDrawSolidTriangle(s, tag) ==
    LET c == IF s.shapeIndex >= BUFFER_SIZE THEN ShapeDrawBatch(s) ELSE s
        w == ShapeUpdateBuffer(c, tag)
    IN  [w EXCEPT !.shapeIndex = @ + 1]

ShapeDrawSolidRect(s, tag) ==
    ShapeDrawSolidTriangle(ShapeDrawSolidTriangle(s, tag), tag)

\* Every alignment emits the same two triangles as far as the batch goes.  The
\* length of the line is computed and divided by, never tested: with the two
\* end points equal it is 0, the scale is Infinity (NaN for a line width of 0),
\* the offsets are NaN, and the two triangles are appended all the same.
ShapeDrawLine(s, tag) ==
    ShapeDrawSolidTriangle(ShapeDrawSolidTriangle(s, tag), tag)

ShapeDrawRect(s, tag) ==
    ShapeDrawLine(ShapeDrawLine(ShapeDrawLine(ShapeDrawLine(s, tag), tag), tag), tag)

\* The loop of drawCircle from segment i on: one line per segment.
RECURSIVE CircleLoop(_, _, _, _)
CircleLoop(s, segments, i, tag) ==
    IF i < segments THEN CircleLoop(ShapeDrawLine(s, tag), segments, i + 1, tag)
    ELSE s

\* Neither radius, segments nor lineWidth is tested.
ShapeDrawCircle(s, radius, segments, lineWidth, tag) ==
    CircleLoop(s, segments, 0, tag)

\* The loop of drawSolidCircle from segment i on: one triangle per segment.
RECURSIVE SolidCircleLoop(_, _, _, _)
SolidCircleLoop(s, segments, i, tag) ==
    IF i < segments
    THEN SolidCircleLoop(ShapeDrawSolidTriangle(s, tag), segments, i + 1, tag)
    ELSE s

\* Neither radius nor segments is tested.
ShapeDrawSolidCircle(s, radius, segments, tag) ==
    SolidCircleLoop(s, segments, 0, tag)

\* The loop of drawPolygon from vertex i (0-based) on: one line per edge.
RECURSIVE PolygonLoop(_, _, _, _)
PolygonLoop(s, count, i, tag) ==
    IF i < count THEN PolygonLoop(ShapeDrawLine(s, tag), count, i + 1, tag)
    ELSE s

\* drawPolygon for count vertices: the edges in turn, then the closing edge.
ShapeDrawPolygon(s, count, tag) ==
    IF count < 3 THEN s
    ELSE ShapeDrawLine(PolygonLoop(s, count, 1, tag), tag)

\* The loop of drawSolidPolygon from vertex i (0-based) on: a triangle fan.
RECURSIVE SolidPolygonLoop(_, _, _, _)
SolidPolygonLoop(s, count, i, tag) ==
    IF i < count
    THEN SolidPolygonLoop(ShapeDrawSolidTriangle(s, tag), count, i + 1, tag)
    ELSE s

ShapeDrawSolidPolygon(s, count, tag) ==
    IF count < 3 THEN s
    ELSE SolidPolygonLoop(s, count, 2, tag)

\* Graphics calls shapeRenderer.commit(), start(), drawFilledTriangle(p1, p2, p3)
\* and drawFilledRect(rect), having set shapeRenderer.color and .transform;
\* shapeRenderer.ts as given has the flush under the name drawBatch and the
\* appends under drawSolidTriangle / drawSolidRect, which take the color and
\* the transform as arguments.
ShapeCommit(s) == ShapeDrawBatch(s)

ShapeStart(s) == [s EXCEPT !.shapeIndex = 0, !.shapeBuf = <<>>]

ShapeDrawFilledTriangle(s, tag) == ShapeDrawSolidTriangle(s, tag)

ShapeDrawFilledRect(s, tag) == ShapeDrawSolidRect(s, tag)

\* BaseRenderer.setShader, which ShapeRenderer overrides without calling it
\* and ImageRenderer calls for a shader of its own type.
BaseSetShader(current, default, shader) ==
    IF shader # NoShader THEN shader ELSE default

\* setShader without the test of the shader's type.
ShapeSetShaderAny(current, shader) ==
    BaseSetShader(current, DefaultShapeShader, shader)

ShapeSetShader(current, shader) ==
    IF shader # NoShader
    THEN (IF shader.type = "shape" THEN shader ELSE current)
    ELSE DefaultShapeShader

(***************************************************************************)
(* ImageRenderer                                                           *)
(***************************************************************************)

ImageStart(s) ==
    [s EXCEPT !.imageIndex = 0, !.imageBuf = <<>>,
              !.currentImage = None, !.currentTarget = None]

ImageCommit(s) ==
    IF s.imageIndex = 0 \/ (s.currentImage = None /\ s.currentTarget = None) THEN s
    ELSE [s EXCEPT
            !.drawCalls = Append(@, [kind |-> "image",
                                     tex |-> IF s.currentTarget # None
                                             THEN s.currentTarget
                                             ELSE s.currentImage,
                                     count |-> s.imageIndex,
                                     prims |-> Drawn(s.imageBuf, s.imageIndex),
                                     shader |-> s.imageShader,
                                     fb |-> s.framebuffer]),
            !.imageIndex = 0,
            !.imageBuf = <<>>,
            !.currentImage = None,
            !.currentTarget = None]

ImageUpdateBuffer(s, tag) ==
    [s EXCEPT !.imageBuf = WriteSlot(@, s.imageIndex,
                                     Vertices(tag, s.colors[s.imageColor],
                                              s.mats[s.imageTransform],
                                              s.imageShader, s.framebuffer)),
              !.wroteBeyond = @ \/ s.imageIndex >= BUFFER_SIZE]

ImageSetShader(current, shader) ==
    IF shader # NoShader
    THEN (IF shader.type = "image"
          THEN BaseSetShader(current, DefaultImageShader, shader)
          ELSE current)
    ELSE BaseSetShader(current, DefaultImageShader, NoShader)

\* drawImage without the identity test: flushes whenever an image is bound.
ImageDrawImageEager(s, image, tag) ==
    LET c == IF \/ s.imageIndex >= BUFFER_SIZE
                \/ s.currentTarget # None
                \/ s.currentImage # None
             THEN ImageCommit(s) ELSE s
        b == [c EXCEPT !.currentImage = image]
        w == ImageUpdateBuffer(b, tag)
    IN  [w EXCEPT !.imageIndex = @ + 1]

ImageDrawImage(s, image, tag) ==
    LET c == IF \/ s.imageIndex >= BUFFER_SIZE
                \/ s.currentTarget # None
                \/ (s.currentImage # None /\ s.currentImage # image)
             THEN ImageCommit(s) ELSE s
        b == [c EXCEPT !.currentImage = image]
        w == ImageUpdateBuffer(b, tag)
    IN  [w EXCEPT !.imageIndex = @ + 1]

ImageDrawImagePoints(s, image, tag) ==
    LET c == IF \/ s.imageIndex >= BUFFER_SIZE
                \/ s.currentTarget # None
                \/ (s.currentImage # None /\ s.currentImage # image)
             THEN ImageCommit(s) ELSE s
        b == [c EXCEPT !.currentImage = image]
        w == ImageUpdateBuffer(b, tag)
    IN  [w EXCEPT !.imageIndex = @ + 1]

ImageDrawRenderTarget(s, target, tag) ==
    LET c == IF \/ s.imageIndex >= BUFFER_SIZE
                \/ s.currentImage # None
                \/ (s.currentTarget # None /\ s.currentTarget # target)
             THEN ImageCommit(s) ELSE s
        b == [c EXCEPT !.currentTarget = target]
        w == ImageUpdateBuffer(b, tag)
    IN  [w EXCEPT !.imageIndex = @ + 1]

\* The loop of drawBitmapText from character i on.
RECURSIVE TextLoop(_, _, _, _, _)
TextLoop(s, font, text, i, tag) ==
    IF i > Len(text) THEN s
    ELSE IF ~HasCharData(font, text[i]) THEN TextLoop(s, font, text, i + 1, tag)
    ELSE LET c == IF s.imageIndex >= BUFFER_SIZE THEN ImageCommit(s) ELSE s
             w == ImageUpdateBuffer(c, tag)
         IN  TextLoop([w EXCEPT !.imageIndex = @ + 1], font, text, i + 1, tag)

ImageDrawBitmapText(s, font, text, tag) ==
    IF text = <<>> THEN s
    ELSE LET c == IF \/ s.imageIndex >= BUFFER_SIZE
                     \/ s.currentTarget # None
                     \/ (s.currentImage # None /\ s.currentImage # FontImage(font))
                  THEN ImageCommit(s) ELSE s
             b == [c EXCEPT !.currentImage = FontImage(font)]
         IN  TextLoop(b, font, text, 1, tag)

(***************************************************************************)
(* Mat4                                                                    *)
(***************************************************************************)

\* Mat4.get(data): the matrix object handed out (the last one put back, or a
\* new one when the pool is empty) set to data, and the heap and pool it leaves.
Mat4Get(ms, pl, data) ==
    IF pl # <<>>
    THEN [mat |-> pl[Len(pl)],
          mats |-> [ms EXCEPT ![pl[Len(pl)]] = data],
          pool |-> SubSeq(pl, 1, Len(pl) - 1)]
    ELSE [mat |-> Len(ms) + 1, mats |-> Append(ms, data), pool |-> pl]

\* Mat4.multiply(a, b): the value of the product.
Mat4Multiply(a, b) == a \o b

\* mat.put()
Mat4Put(pl, mat) == Append(pl, mat)

(***************************************************************************)
(* Graphics                                                                *)
(***************************************************************************)

\* A Graphics call's entry in the history: which call it was, the texture source
\* and number of primitives it asked for, and the batch cursors, the bound
\* image and target and the number of draw calls issued when it was made.
\* The transform getter answering the base frame, not the last one pushed.
TopBase == transformStack[1]

\* get transform(): the last matrix of the transform stack.
Top == transformStack[Len(transformStack)]

Call(call, src, n) ==
    [call |-> call, src |-> src, n |-> n,
     shapeIndex |-> shapeIndex, imageIndex |-> imageIndex,
     currentImage |-> currentImage, currentTarget |-> currentTarget,
     calls |-> Len(drawCalls),
     tint |-> colors[color], transform |-> mats[Top],
     transformStack |-> transformStack, mats |-> mats, pool |-> pool,
     targetStack |-> targetStack, framebuffer |-> framebuffer,
     shapeShader |-> shapeShader, imageShader |-> imageShader,
     shapeBuf |-> shapeBuf, imageBuf |-> imageBuf,
     shapeTransform |-> shapeTransform, imageTransform |-> imageTransform,
     arg |-> None]

\* shapeRenderer.color = this.color; shapeRenderer.transform = this.transform
BindShape(s) == [s EXCEPT !.shapeColor = color, !.shapeTransform = Top]

\* imageRenderer.color = this.color; imageRenderer.transform = this.transform
BindImage(s) == [s EXCEPT !.imageColor = color, !.imageTransform = Top]

\* What the drawing methods leave alone.
contextVars == <<colors, mats, pool, color, transformStack, targetStack,
                 framebuffer, shapeShader, imageShader, probe, libraryVars>>

\* What the stack, shader and color operations leave alone.
batchVars == <<shapeIndex, shapeBuf, imageIndex, imageBuf, currentImage,
               currentTarget, drawCalls, wroteBeyond, shapeColor, shapeTransform,
               imageColor, imageTransform, shapeProjection, imageProjection,
               probe, libraryVars>>

\* The state a Graphics call leaves.
Finish(s, entry, threw) ==
    /\ shapeIndex' = s.shapeIndex
    /\ shapeBuf' = s.shapeBuf
    /\ imageIndex' = s.imageIndex
    /\ imageBuf' = s.imageBuf
    /\ currentImage' = s.currentImage
    /\ currentTarget' = s.currentTarget
    /\ drawCalls' = s.drawCalls
    /\ wroteBeyond' = s.wroteBeyond
    /\ shapeColor' = s.shapeColor
    /\ shapeTransform' = s.shapeTransform
    /\ imageColor' = s.imageColor
    /\ imageTransform' = s.imageTransform
    /\ shapeProjection' = s.shapeProjection
    /\ imageProjection' = s.imageProjection
    /\ thrown' = threw
    /\ history' = Append(history, entry)
    /\ UNCHANGED contextVars

\* A stack, shader or color operation after which the pending vertices show
\* the renderer's Color object as it is now, as if the buffer held the object
\* and not its components.
NoteRepainting(entry, threw) ==
    /\ thrown' = threw
    /\ history' = Append(history, entry)
    /\ shapeBuf' = [k \in 1..Len(shapeBuf) |->
                       [shapeBuf[k] EXCEPT !.color = colors'[shapeColor]]]
    /\ imageBuf' = [k \in 1..Len(imageBuf) |->
                       [imageBuf[k] EXCEPT !.color = colors'[imageColor]]]
    /\ UNCHANGED <<shapeIndex, imageIndex, currentImage, currentTarget, drawCalls,
                   wroteBeyond, shapeColor, shapeTransform, imageColor,
                   imageTransform, shapeProjection, imageProjection, probe,
                   libraryVars>>

\* The record a stack, shader or color operation leaves in the history; none
\* of them touches a renderer's batch.
Note(entry, threw) ==
    /\ thrown' = threw
    /\ history' = Append(history, entry)
    /\ UNCHANGED batchVars

CanCall == Len(history) < MaxOps

Init ==
    /\ shapeIndex = 0
    /\ shapeBuf = <<>>
    /\ imageIndex = 0
    /\ imageBuf = <<>>
    /\ currentImage = None
    /\ currentTarget = None
    /\ drawCalls = <<>>
    /\ wroteBeyond = FALSE
    /\ thrown = FALSE
    /\ history = <<>>
    /\ colors = <<White, White, White>>
    /\ mats = <<Identity, Identity, Identity>>
    /\ pool = <<>>
    /\ color = 1
    /\ transformStack = <<1>>
    /\ targetStack = <<>>
    /\ framebuffer = None
    /\ shapeColor = 2
    /\ shapeTransform = 2
    /\ shapeShader = DefaultShapeShader
    /\ imageColor = 3
    /\ imageTransform = 3
    /\ imageShader = DefaultImageShader
    /\ shapeProjection = Unsized
    /\ imageProjection = Unsized
    /\ probe = NoProbe
    /\ audioChannels = [id \in ChannelIds |-> NewAudioChannel]
    /\ mainGain = 100
    /\ sources = <<>>
    /\ audioReturn = NoReturn
    /\ container = [name \in ServiceNames |-> Undefined]
    /\ added = [name \in ServiceNames |-> Undefined]
    /\ serviceReturn = NoReturn
    /\ handlers = [event \in Events |-> <<>>]
    /\ registry = <<>>
    /\ emitLog = NoEmit
    /\ requested = <<>>
    /\ loadState = <<>>
    /\ loaded = 0
    /\ promise = None

\* start() sized to the canvas whatever the target stack holds.
StartSurfaceCanvas == Canvas

\* The surface start() takes width and height from: the top render target,
\* or the canvas (its size times pixelRatio) when the target stack is empty.
StartSurface ==
    IF Len(targetStack) > 0 THEN targetStack[Len(targetStack)] ELSE Canvas

\* projection.ortho(...) and setProjection on both renderers. Both hold the
\* one Mat4 that Graphics keeps, which only start() rewrites.
SetProjection(s, surface) ==
    [s EXCEPT !.shapeProjection = surface, !.imageProjection = surface]

Start ==
    /\ CanCall
    /\ Finish(ImageStart(ShapeStart(SetProjection(State, StartSurface))),
              Call("start", None, 0), FALSE)

Commit ==
    /\ CanCall
    /\ Finish(ImageCommit(ShapeCommit(State)), Call("commit", None, 0), FALSE)

DrawFilledTriangle ==
    /\ CanCall
    /\ Finish(ShapeDrawFilledTriangle(BindShape(ImageCommit(State)), Tag(None)),
              Call("shape", None, 1), FALSE)

DrawLine ==
    /\ CanCall
    /\ Finish(ShapeDrawLine(BindShape(ImageCommit(State)), Tag(None)),
              Call("shape", None, 2), FALSE)

DrawFilledRect ==
    /\ CanCall
    /\ Finish(ShapeDrawFilledRect(BindShape(ImageCommit(State)), Tag(None)),
              Call("shape", None, 2), FALSE)

DrawRect ==
    /\ CanCall
    /\ Finish(ShapeDrawRect(BindShape(ImageCommit(State)), Tag(None)),
              Call("shape", None, 8), FALSE)

\* drawFilledCircle, drawCircle, drawFilledPolygon and drawPolygon flush the
\* image batch, set the shape renderer's color and transform and then call
\* themselves, not the shape renderer: the call stack overflows (RangeError)
\* and nothing is appended.
DrawFilledCircle ==
    /\ CanCall
    /\ Finish(BindShape(ImageCommit(State)), Call("overflow", None, 0), TRUE)

DrawCircle ==
    /\ CanCall
    /\ Finish(BindShape(ImageCommit(State)), Call("overflow", None, 0), TRUE)

DrawFilledPolygon ==
    /\ CanCall
    /\ Finish(BindShape(ImageCommit(State)), Call("overflow", None, 0), TRUE)

DrawPolygon ==
    /\ CanCall
    /\ Finish(BindShape(ImageCommit(State)), Call("overflow", None, 0), TRUE)

DrawImage ==
    /\ CanCall
    /\ \E image \in Images :
          Finish(ImageDrawImage(BindImage(ShapeCommit(State)), image, Tag(image)),
                 Call("image", image, 1), FALSE)

DrawImagePoints ==
    /\ CanCall
    /\ \E image \in Images :
          Finish(ImageDrawImagePoints(BindImage(ShapeCommit(State)), image, Tag(image)),
                 Call("image", image, 1), FALSE)

DrawRenderTarget ==
    /\ CanCall
    /\ \E target \in Targets :
          Finish(ImageDrawRenderTarget(ShapeCommit(State), target, Tag(target)),
                 Call("target", target, 1), FALSE)

DrawBitmapText ==
    /\ CanCall
    /\ \E font \in Fonts, text \in Texts :
          Finish(ImageDrawBitmapText(ShapeCommit(State), font, text, Tag(FontImage(font))),
                 Call("text", FontImage(font), GlyphCount(font, text)), FALSE)

CanCallStack == Len(history) < MaxStackOps

\* pushTarget that binds the target's framebuffer before the depth test.
PushTargetBindFirst(target) ==
    IF Len(targetStack) = MAX_TARGET_STACK
    THEN /\ framebuffer' = target
         /\ UNCHANGED <<colors, mats, pool, color, transformStack, targetStack,
                        shapeShader, imageShader>>
         /\ Note(Call("pushTarget", target, 0), TRUE)
    ELSE /\ targetStack' = Append(targetStack, target)
         /\ framebuffer' = target
         /\ UNCHANGED <<colors, mats, pool, color, transformStack,
                        shapeShader, imageShader>>
         /\ Note(Call("pushTarget", target, 0), FALSE)

PushTargetWith(target) ==
    IF Len(targetStack) = MAX_TARGET_STACK
    THEN /\ UNCHANGED contextVars
         /\ Note(Call("pushTarget", target, 0), TRUE)
    ELSE /\ targetStack' = Append(targetStack, target)
         /\ framebuffer' = target
         /\ UNCHANGED <<colors, mats, pool, color, transformStack,
                        shapeShader, imageShader>>
         /\ Note(Call("pushTarget", target, 0), FALSE)

PushTarget ==
    /\ CanCallStack
    /\ \E target \in Targets : PushTargetWith(target)

\* Array.prototype.pop on an empty array returns undefined and changes nothing.
PopTarget ==
    /\ CanCallStack
    /\ LET rest == IF targetStack = <<>> THEN <<>>
                   ELSE SubSeq(targetStack, 1, Len(targetStack) - 1)
       IN  /\ targetStack' = rest
           /\ framebuffer' = IF Len(rest) > 0 THEN rest[Len(rest)] ELSE None
    /\ UNCHANGED <<colors, mats, pool, color, transformStack, shapeShader, imageShader>>
    /\ Note(Call("popTarget", None, 0), FALSE)

ClearTargets ==
    /\ CanCallStack
    /\ targetStack' = <<>>
    /\ framebuffer' = None
    /\ UNCHANGED <<colors, mats, pool, color, transformStack, shapeShader, imageShader>>
    /\ Note(Call("clearTargets", None, 0), FALSE)

\* pushTransform that takes the matrix from the pool before the depth test.
PushTransformGetFirst(arg) ==
    LET got == Mat4Get(mats, pool, IF arg.given THEN arg.value ELSE mats[Top])
    IN  IF Len(transformStack) = MAX_TRANSFORM_STACK
        THEN /\ mats' = got.mats
             /\ pool' = got.pool
             /\ UNCHANGED <<colors, color, transformStack, targetStack, framebuffer,
                            shapeShader, imageShader>>
             /\ Note(Call("pushTransform", arg, 0), TRUE)
        ELSE /\ transformStack' = Append(transformStack, got.mat)
             /\ mats' = got.mats
             /\ pool' = got.pool
             /\ UNCHANGED <<colors, color, targetStack, framebuffer,
                            shapeShader, imageShader>>
             /\ Note(Call("pushTransform", arg, 0), FALSE)

PushTransformWith(arg) ==
    IF Len(transformStack) = MAX_TRANSFORM_STACK
    THEN /\ UNCHANGED contextVars
         /\ Note(Call("pushTransform", arg, 0), TRUE)
    ELSE LET got == Mat4Get(mats, pool, IF arg.given THEN arg.value ELSE mats[Top])
         IN  /\ transformStack' = Append(transformStack, got.mat)
             /\ mats' = got.mats
             /\ pool' = got.pool
             /\ UNCHANGED <<colors, color, targetStack, framebuffer,
                            shapeShader, imageShader>>
             /\ Note(Call("pushTransform", arg, 0), FALSE)

PushTransform ==
    /\ CanCallStack
    /\ \E arg \in TransformArgs : PushTransformWith(arg)

\* Mat4.multiply(this.transform, transform, this.transform): the top matrix
\* object is overwritten with the product.
ApplyTransform ==
    /\ CanCallStack
    /\ UNCHANGED <<colors, pool, color, transformStack, targetStack, framebuffer,
                   shapeShader, imageShader>>
    /\ \E m \in MatArgs :
          /\ mats' = [mats EXCEPT ![Top] = Mat4Multiply(mats[Top], m)]
          /\ Note(Call("applyTransform", m, 0), FALSE)

\* popTransform that refuses only an empty stack.
PopTransformToEmpty ==
    IF Len(transformStack) <= 0
    THEN /\ UNCHANGED contextVars
         /\ Note(Call("popTransform", None, 0), TRUE)
    ELSE /\ transformStack' = SubSeq(transformStack, 1, Len(transformStack) - 1)
         /\ pool' = Mat4Put(pool, Top)
         /\ UNCHANGED <<colors, mats, color, targetStack, framebuffer,
                        shapeShader, imageShader>>
         /\ Note(Call("popTransform", None, 0), FALSE)

PopTransformBody ==
    IF Len(transformStack) <= 1
    THEN /\ UNCHANGED contextVars
         /\ Note(Call("popTransform", None, 0), TRUE)
    ELSE /\ transformStack' = SubSeq(transformStack, 1, Len(transformStack) - 1)
         /\ pool' = Mat4Put(pool, Top)
         /\ UNCHANGED <<colors, mats, color, targetStack, framebuffer,
                        shapeShader, imageShader>>
         /\ Note(Call("popTransform", None, 0), FALSE)

PopTransform ==
    /\ CanCallStack
    /\ PopTransformBody

SetShader ==
    /\ CanCallStack
    /\ UNCHANGED <<colors, mats, pool, color, transformStack, targetStack, framebuffer>>
    /\ \E shader \in UserShaders \cup {NoShader} :
          /\ shapeShader' = ShapeSetShader(shapeShader, shader)
          /\ imageShader' = ImageSetShader(imageShader, shader)
          /\ Note(Call("setShader", shader, 0), FALSE)

\* graphics.color = new Color(...): the public field is given another object.
AssignColor ==
    /\ CanCallStack
    /\ UNCHANGED <<mats, pool, transformStack, targetStack, framebuffer,
                   shapeShader, imageShader>>
    /\ \E c \in ColorValues :
          /\ colors' = Append(colors, c)
          /\ color' = Len(colors) + 1
          /\ Note(Call("assignColor", c, 0), FALSE)

\* graphics.color.set(...): the object the field holds is changed in place.
MutateColor ==
    /\ CanCallStack
    /\ UNCHANGED <<mats, pool, color, transformStack, targetStack, framebuffer,
                   shapeShader, imageShader>>
    /\ \E c \in ColorValues :
          /\ colors' = [colors EXCEPT ![color] = c]
          /\ Note(Call("mutateColor", c, 0), FALSE)

(***************************************************************************)
(* ShapeRenderer's drawing methods called on the renderer itself, with the *)
(* color and transform it holds.                                           *)
(***************************************************************************)

CanCallRenderer == Len(history) < MaxRendererOps

\* The arguments the shape methods are tried with.
Coords == {0, 1}

Radii == {0, 1}

SegmentCounts == {2, 3}

LineWidths == {0, 1}

VertexCounts == {2, 3, 4}

RendererDrawBatch ==
    /\ CanCallRenderer
    /\ Finish(ShapeDrawBatch(State), Call("drawBatch", None, 0), FALSE)

RendererDrawSolidTriangle ==
    /\ CanCallRenderer
    /\ Finish(ShapeDrawSolidTriangle(State, Tag(None)), Call("solidTriangle", None, 1), FALSE)

RendererDrawLine ==
    /\ CanCallRenderer
    /\ \E x2 \in Coords, y2 \in Coords, lineWidth \in LineWidths :
          Finish(ShapeDrawLine(State, Tag(None)),
                 [Call("line", None, 2) EXCEPT
                     !.arg = [x1 |-> 0, y1 |-> 0, x2 |-> x2, y2 |-> y2,
                              lineWidth |-> lineWidth]],
                 FALSE)

RendererDrawRect ==
    /\ CanCallRenderer
    /\ \E width \in Coords, height \in Coords :
          Finish(ShapeDrawRect(State, Tag(None)),
                 [Call("rect", None, 8) EXCEPT
                     !.arg = [width |-> width, height |-> height]],
                 FALSE)

RendererDrawCircle ==
    /\ CanCallRenderer
    /\ \E radius \in Radii, segments \in SegmentCounts, lineWidth \in LineWidths :
          Finish(ShapeDrawCircle(State, radius, segments, lineWidth, Tag(None)),
                 [Call("circle", None, 2 * segments) EXCEPT
                     !.arg = [radius |-> radius, segments |-> segments,
                              lineWidth |-> lineWidth]],
                 FALSE)

RendererDrawSolidCircle ==
    /\ CanCallRenderer
    /\ \E radius \in Radii, segments \in SegmentCounts :
          Finish(ShapeDrawSolidCircle(State, radius, segments, Tag(None)),
                 [Call("solidCircle", None, segments) EXCEPT
                     !.arg = [radius |-> radius, segments |-> segments,
                              lineWidth |-> 1]],
                 FALSE)

RendererDrawPolygon ==
    /\ CanCallRenderer
    /\ \E count \in VertexCounts :
          Finish(ShapeDrawPolygon(State, count, Tag(None)),
                 [Call("polygon", None, IF count < 3 THEN 0 ELSE 2 * count) EXCEPT
                     !.arg = [count |-> count]],
                 FALSE)

RendererDrawSolidPolygon ==
    /\ CanCallRenderer
    /\ \E count \in VertexCounts :
          Finish(ShapeDrawSolidPolygon(State, count, Tag(None)),
                 [Call("solidPolygon", None, IF count < 3 THEN 0 ELSE count - 2) EXCEPT
                     !.arg = [count |-> count]],
                 FALSE)

NextRenderer ==
    \/ RendererDrawBatch
    \/ RendererDrawSolidTriangle
    \/ RendererDrawLine
    \/ RendererDrawRect
    \/ RendererDrawCircle
    \/ RendererDrawSolidCircle
    \/ RendererDrawPolygon
    \/ RendererDrawSolidPolygon

SpecRenderer == Init /\ [][NextRenderer]_vars

Next ==
    \/ Start
    \/ Commit
    \/ DrawFilledTriangle
    \/ DrawLine
    \/ DrawFilledRect
    \/ DrawRect
    \/ DrawFilledCircle
    \/ DrawCircle
    \/ DrawFilledPolygon
    \/ DrawPolygon
    \/ DrawImage
    \/ DrawImagePoints
    \/ DrawRenderTarget
    \/ DrawBitmapText

Spec == Init /\ [][Next]_vars

\* The stack operations alone.
NextStack ==
    \/ PushTarget
    \/ PopTarget
    \/ ClearTargets
    \/ PushTransform
    \/ ApplyTransform
    \/ PopTransform

SpecStack == Init /\ [][NextStack]_vars

\* Drawing mixed with changes of color, transform, shader and target.
CanCallMixed == Len(history) < MaxCtxOps

NextMixed ==
    \/ CanCallMixed /\ Start
    \/ CanCallMixed /\ Commit
    \/ CanCallMixed /\ DrawFilledTriangle
    \/ CanCallMixed /\ DrawLine
    \/ CanCallMixed /\ DrawFilledRect
    \/ CanCallMixed /\ DrawRect
    \/ CanCallMixed /\ DrawFilledCircle
    \/ CanCallMixed /\ DrawCircle
    \/ CanCallMixed /\ DrawFilledPolygon
    \/ CanCallMixed /\ DrawPolygon
    \/ CanCallMixed /\ DrawImage
    \/ CanCallMixed /\ DrawImagePoints
    \/ CanCallMixed /\ DrawRenderTarget
    \/ CanCallMixed /\ DrawBitmapText
    \/ CanCallMixed /\ PushTarget
    \/ CanCallMixed /\ PopTarget
    \/ CanCallMixed /\ ClearTargets
    \/ CanCallMixed /\ PushTransform
    \/ CanCallMixed /\ ApplyTransform
    \/ CanCallMixed /\ PopTransform
    \/ CanCallMixed /\ SetShader
    \/ CanCallMixed /\ AssignColor
    \/ CanCallMixed /\ MutateColor

SpecMixed == Init /\ [][NextMixed]_vars

\* The transform stack together with the image renderer's drawing methods,
\* which keep a reference to the matrix they were last given.
NextFrames ==
    \/ PushTransform
    \/ PopTransform
    \/ DrawImage
    \/ DrawRenderTarget
    \/ DrawBitmapText

SpecFrames == Init /\ [][NextFrames]_vars

(***************************************************************************)
(* The geometry the image renderer computes, and Rectangle.intersectsLine. *)
(* These are functions of their arguments alone. Each is applied by an     *)
(* action that draws the arguments from a bounded set and leaves arguments  *)
(* and result in probe, once per behaviour. A quotient a / b is kept as the *)
(* pair <<a, b>>, so that two quotients are compared exactly.              *)
(***************************************************************************)

\* The state of Graphics and its renderers.
rendererVars == <<shapeIndex, shapeBuf, imageIndex, imageBuf, currentImage,
                  currentTarget, drawCalls, wroteBeyond, thrown, history, colors,
                  mats, pool, color, transformStack, targetStack, framebuffer,
                  shapeColor, shapeTransform, shapeShader, imageColor,
                  imageTransform, imageShader, shapeProjection, imageProjection>>

\* Everything but probe.
graphicsVars == <<libraryVars, rendererVars>>

Div(a, b) == <<a, b>>

\* The same number, for denominators above 0.
SameNumber(p, q) == p[1] * q[2] = q[1] * p[2]

\* out.set(u, v)
Vec2Set(u, v) == [x |-> u, y |-> v]

SameVec2(p, q) == SameNumber(p.x, q.x) /\ SameNumber(p.y, q.y)

\* The four switch statements of getFlippedUV, each over pointOffset
\* [tl, tr, br, bl]; a pointOffset outside 0..3 leaves out as it was.
UVBoth(frame, textureSize, pointOffset, out) ==
    CASE pointOffset = 0 ->
           Vec2Set(Div(frame.x + frame.width, textureSize.x),
                   Div(frame.y + frame.height, textureSize.y))
      [] pointOffset = 1 ->
           Vec2Set(Div(frame.x, textureSize.x),
                   Div(frame.y + frame.height, textureSize.y))
      [] pointOffset = 2 ->
           Vec2Set(Div(frame.x, textureSize.x), Div(frame.y, textureSize.y))
      [] pointOffset = 3 ->
           Vec2Set(Div(frame.x + frame.width, textureSize.x),
                   Div(frame.y, textureSize.y))
      [] OTHER -> out

UVHorizontal(frame, textureSize, pointOffset, out) ==
    CASE pointOffset = 0 ->
           Vec2Set(Div(frame.x, textureSize.x),
                   Div(frame.y + frame.height, textureSize.y))
      [] pointOffset = 1 ->
           Vec2Set(Div(frame.x + frame.width, textureSize.x),
                   Div(frame.y + frame.height, textureSize.y))
      [] pointOffset = 2 ->
           Vec2Set(Div(frame.x + frame.width, textureSize.x),
                   Div(frame.y, textureSize.y))
      [] pointOffset = 3 ->
           Vec2Set(Div(frame.x, textureSize.x), Div(frame.y, textureSize.y))
      [] OTHER -> out

UVVertical(frame, textureSize, pointOffset, out) ==
    CASE pointOffset = 0 ->
           Vec2Set(Div(frame.x + frame.width, textureSize.x),
                   Div(frame.y, textureSize.y))
      [] pointOffset = 1 ->
           Vec2Set(Div(frame.x, textureSize.x), Div(frame.y, textureSize.y))
      [] pointOffset = 2 ->
           Vec2Set(Div(frame.x, textureSize.x),
                   Div(frame.y + frame.height, textureSize.y))
      [] pointOffset = 3 ->
           Vec2Set(Div(frame.x + frame.width, textureSize.x),
                   Div(frame.y + frame.height, textureSize.y))
      [] OTHER -> out

UVNone(frame, textureSize, pointOffset, out) ==
    CASE pointOffset = 0 ->
           Vec2Set(Div(frame.x, textureSize.x), Div(frame.y, textureSize.y))
      [] pointOffset = 1 ->
           Vec2Set(Div(frame.x + frame.width, textureSize.x),
                   Div(frame.y, textureSize.y))
      [] pointOffset = 2 ->
           Vec2Set(Div(frame.x + frame.width, textureSize.x),
                   Div(frame.y + frame.height, textureSize.y))
      [] pointOffset = 3 ->
           Vec2Set(Div(frame.x, textureSize.x),
                   Div(frame.y + frame.height, textureSize.y))
      [] OTHER -> out

\* getFlippedUV without its first branch: 'both' falls to the last one.
GetFlippedUVNoBoth(frame, textureSize, flip, pointOffset, out) ==
    IF flip = "horizontal" THEN UVHorizontal(frame, textureSize, pointOffset, out)
    ELSE IF flip = "vertical" THEN UVVertical(frame, textureSize, pointOffset, out)
    ELSE UVNone(frame, textureSize, pointOffset, out)

GetFlippedUV(frame, textureSize, flip, pointOffset, out) ==
    IF flip = "both" THEN UVBoth(frame, textureSize, pointOffset, out)
    ELSE IF flip = "horizontal" THEN UVHorizontal(frame, textureSize, pointOffset, out)
    ELSE IF flip = "vertical" THEN UVVertical(frame, textureSize, pointOffset, out)
    ELSE UVNone(frame, textureSize, pointOffset, out)

\* The earlier getFlippedUV, which takes the section and the texture's size
\* as numbers and the flip as two booleans; its four tables are the same.
EarlierGetFlippedUV(sx, sy, sw, sh, textureWidth, textureHeight, flipX, flipY, pointOffset, out) ==
    LET frame == [x |-> sx, y |-> sy, width |-> sw, height |-> sh]
        textureSize == [x |-> textureWidth, y |-> textureHeight]
    IN  IF flipX /\ flipY THEN UVBoth(frame, textureSize, pointOffset, out)
        ELSE IF flipX THEN UVHorizontal(frame, textureSize, pointOffset, out)
        ELSE IF flipY THEN UVVertical(frame, textureSize, pointOffset, out)
        ELSE UVNone(frame, textureSize, pointOffset, out)

\* The arguments tried.
Flips == {"none", "horizontal", "vertical", "both"}
Corners == 0..3
Frames ==
    {[x |-> x, y |-> y, width |-> w, height |-> h] :
        x \in {0, 1}, y \in {0, 1}, w \in {0, 1, 2}, h \in {0, 1, 2}}
TextureSizes == {[x |-> w, y |-> h] : w \in {2, 4}, h \in {2, 4}}

\* tempTexCoord before the call.
NoVec2 == Vec2Set(Div(0, 1), Div(0, 1))

ProbeGetFlippedUV ==
    /\ probe = NoProbe
    /\ \E frame \in Frames, textureSize \in TextureSizes, flip \in Flips,
          pointOffset \in Corners :
          probe' = [fn |-> "getFlippedUV", frame |-> frame,
                    textureSize |-> textureSize, flip |-> flip,
                    pointOffset |-> pointOffset,
                    out |-> GetFlippedUV(frame, textureSize, flip, pointOffset,
                                         NoVec2)]
    /\ UNCHANGED graphicsVars

\* A bitmap font's data: chars maps a character to its BmFontChar, kernings
\* is the list of kerning lines in file order.
NoCharData == [none |-> TRUE]

\* FontData.getCharData: this.chars[id] ?? null
GetCharData(font, char) ==
    IF char \in DOMAIN font.chars THEN font.chars[char] ELSE NoCharData

\* kernings.findIndex(...): the first index that matches, or -1 (0 here,
\* sequences being 1-based).
FindKerning(font, left, right) ==
    LET hits == {k \in 1..Len(font.kernings) :
                    font.kernings[k].left = left /\ font.kernings[k].right = right}
    IN  IF hits = {} THEN 0 ELSE CHOOSE k \in hits : \A h \in hits : k <= h

\* FontData.getKerning
GetKerning(font, left, right) ==
    LET index == FindKerning(font, left, right)
    IN  IF index # 0 THEN font.kernings[index].amount ELSE 0

\* drawBitmapText taking no kerning at all.
KerningNone(font, text, i) == 0

\* let kerning = 0; if (i > 0) kerning = font.getKerning(text[i - 1], char)
\* (i counts from 1 here).
KerningBefore(font, text, i) ==
    IF i > 1 THEN GetKerning(font, text[i - 1], text[i]) ELSE 0

\* The loop of drawBitmapText from character i on, as geometry: the quads it
\* appends, each with the index of its character, its left and right edge
\* before the transform, the kerning taken, and xOffset after the glyph.
RECURSIVE BitmapTextLoop(_, _, _, _, _, _)
BitmapTextLoop(position, font, text, i, xOffset, quads) ==
    IF i > Len(text) THEN quads
    ELSE LET charData == GetCharData(font, text[i])
         IN  IF charData = NoCharData
             THEN BitmapTextLoop(position, font, text, i + 1, xOffset, quads)
             ELSE LET kerning == KerningBefore(font, text, i)
                      placed == xOffset + kerning
                      left == position.x + placed + charData.xOffset
                  IN  BitmapTextLoop(position, font, text, i + 1,
                                     placed + charData.xAdvance,
                                     Append(quads, [i |-> i, left |-> left,
                                                    right |-> left + charData.width,
                                                    kerning |-> kerning,
                                                    after |-> placed + charData.xAdvance]))

DrawBitmapTextQuads(position, font, text) ==
    IF text = <<>> THEN <<>>
    ELSE BitmapTextLoop(position, font, text, 1, 0, <<>>)

\* The arguments tried: texts of up to three characters over 'A', 'B' and
\* '?', fonts with glyphs for 'A' and 'B' only, and kerning lists with no
\* line, a line for (A, B), lines for other pairs, and a repeated line.
Chars == {"A", "B", "?"}
Strings ==
    {<<>>} \cup {<<a>> : a \in Chars} \cup {<<a, b>> : a \in Chars, b \in Chars}
        \cup {<<a, b, c>> : a \in Chars, b \in Chars, c \in Chars}
BmFontChar(xOffset, width, xAdvance) ==
    [xOffset |-> xOffset, width |-> width, xAdvance |-> xAdvance]
BmKerning(left, right, amount) ==
    [left |-> left, right |-> right, amount |-> amount]
KerningLists ==
    {<<>>,
     <<BmKerning("A", "B", -2)>>,
     <<BmKerning("A", "B", -2), BmKerning("?", "B", 1), BmKerning("B", "A", 3)>>,
     <<BmKerning("A", "A", 1), BmKerning("A", "B", -2), BmKerning("A", "B", 5)>>}
BitmapFonts ==
    {[chars |-> [c \in {"A", "B"} |->
                    IF c = "A" THEN BmFontChar(xo, 9, 10) ELSE BmFontChar(0, 7, 8)],
      kernings |-> ks] : xo \in {0, 1}, ks \in KerningLists}
Positions == {[x |-> 0], [x |-> 4]}

ProbeDrawBitmapText ==
    /\ probe = NoProbe
    /\ \E position \in Positions, font \in BitmapFonts, text \in Strings :
          probe' = [fn |-> "drawBitmapText", position |-> position,
                    font |-> font, text |-> text,
                    quads |-> DrawBitmapTextQuads(position, font, text)]
    /\ UNCHANGED graphicsVars

\* t < 0 and t > 1 for the quotient t = n / d, d not 0.
QuotientBelow0(n, d) == (n < 0 /\ d > 0) \/ (n > 0 /\ d < 0)
QuotientAbove1(n, d) == (d > 0 /\ n > d) \/ (d < 0 /\ n < d)

\* linesIntersect(p1Start, p1End, p2Start, p2End), called without out.
LinesIntersect(p1Start, p1End, p2Start, p2End) ==
    LET b == [x |-> p1End.x - p1Start.x, y |-> p1End.y - p1Start.y]
        d == [x |-> p2End.x - p2Start.x, y |-> p2End.y - p2Start.y]
        bDotDPrep == b.x * d.y - b.y * d.x
        c == [x |-> p2Start.x - p1Start.x, y |-> p2Start.y - p1Start.y]
        t == c.x * d.y - c.y * d.x
        u == c.x * b.y - c.y * b.x
    IN  IF bDotDPrep = 0 THEN FALSE
        ELSE IF QuotientBelow0(t, bDotDPrep) \/ QuotientAbove1(t, bDotDPrep) THEN FALSE
        ELSE IF QuotientBelow0(u, bDotDPrep) \/ QuotientAbove1(u, bDotDPrep) THEN FALSE
        ELSE TRUE

Point(x, y) == [x |-> x, y |-> y]

\* The four pairs (tempStart, tempEnd) that intersectsLine sets, under the
\* names its comments give them.
CheckTop(r) == <<Point(r.x, r.y), Point(r.x + r.width, r.y)>>
CheckRight(r) == <<Point(r.x + r.width, r.y + r.height), Point(r.x + r.width, r.y)>>
CheckBottom(r) == <<Point(r.x, r.y + r.height), Point(r.x, r.y + r.height)>>
CheckLeft(r) == <<Point(r.x, r.y), Point(r.x, r.y + r.height)>>

\* Rectangle.intersectsLine(origin, target)
IntersectsLine(r, origin, target) ==
    \/ LinesIntersect(origin, target, CheckTop(r)[1], CheckTop(r)[2])
    \/ LinesIntersect(origin, target, CheckRight(r)[1], CheckRight(r)[2])
    \/ LinesIntersect(origin, target, CheckBottom(r)[1], CheckBottom(r)[2])
    \/ LinesIntersect(origin, target, CheckLeft(r)[1], CheckLeft(r)[2])

\* The arguments tried: two rectangles and every segment between points of
\* a 5 x 5 grid around them.
Rectangles ==
    {[x |-> 1, y |-> 1, width |-> 2, height |-> 2],
     [x |-> 0, y |-> 1, width |-> 3, height |-> 1]}
GridPoints == {Point(x, y) : x \in 0..4, y \in 0..4}

ProbeIntersectsLine ==
    /\ probe = NoProbe
    /\ \E r \in Rectangles, origin \in GridPoints, target \in GridPoints :
          probe' = [fn |-> "intersectsLine", rect |-> r, origin |-> origin,
                    target |-> target,
                    result |-> IntersectsLine(r, origin, target)]
    /\ UNCHANGED graphicsVars

\* An optional argument: absent, or given with a value.
Absent == [given |-> FALSE]
Given(v) == [given |-> TRUE, value |-> v]

\* A vertex of a quad as updateBuffer receives it: the position handed to
\* transformMat4 and the texture coordinate.
QuadVertex(x, y, uv) == [pos |-> Point(x, y), uv |-> uv]

\* ImageRenderer.drawImage(image, position, flip, frame?, size?): the four
\* vertices of the quad it appends, in the order [tl, tr, br, bl].
DrawImageQuad(image, position, flip, frame, size) ==
    LET tempFrame == IF frame.given THEN frame.value
                     ELSE [x |-> 0, y |-> 0,
                           width |-> image.width, height |-> image.height]
        tempSize == IF size.given THEN size.value
                    ELSE [x |-> image.width, y |-> image.height]
        uv(k) == GetFlippedUV(tempFrame, tempSize, flip, k, NoVec2)
    IN  <<QuadVertex(position.x, position.y, uv(0)),
          QuadVertex(position.x + tempFrame.width, position.y, uv(1)),
          QuadVertex(position.x + tempFrame.width,
                     position.y + tempFrame.height, uv(2)),
          QuadVertex(position.x, position.y + tempFrame.height, uv(3))>>

\* The earlier ImageRenderer.drawScaledImageSection(x, y, width, height, sx,
\* sy, sw, sh, flipX, flipY, image, color, transform).
DrawScaledImageSectionQuad(x, y, width, height, sx, sy, sw, sh, flipX, flipY, image) ==
    LET uv(k) == EarlierGetFlippedUV(sx, sy, sw, sh, image.width, image.height,
                                     flipX, flipY, k, NoVec2)
    IN  <<QuadVertex(x, y, uv(0)),
          QuadVertex(x + width, y, uv(1)),
          QuadVertex(x + width, y + height, uv(2)),
          QuadVertex(x, y + height, uv(3))>>

\* The arguments tried: images of two sizes, a frame inside or partly
\* outside the image or none, and a size equal to the image's, smaller,
\* larger, or none.
ImageSizes == {[width |-> 2, height |-> 2], [width |-> 4, height |-> 2]}
DrawPositions == {[x |-> 0, y |-> 0], [x |-> 3, y |-> 1]}
FrameArgs == {Absent} \cup {Given(f) : f \in Frames}
SizeArgs ==
    {Absent} \cup {Given([x |-> w, y |-> h]) : w \in {1, 2, 4}, h \in {2}}

ProbeDrawImage ==
    /\ probe = NoProbe
    /\ \E image \in ImageSizes, position \in DrawPositions, flip \in Flips,
          frame \in FrameArgs, size \in SizeArgs :
          probe' = [fn |-> "drawImage", image |-> image, position |-> position,
                    flip |-> flip, frame |-> frame, size |-> size,
                    quad |-> DrawImageQuad(image, position, flip, frame, size)]
    /\ UNCHANGED graphicsVars

\* The loop of BitmapFont.width from character i on: it ends at the first
\* character without a glyph.
RECURSIVE WidthLoop(_, _, _, _)
WidthLoop(font, text, i, length) ==
    IF i > Len(text) THEN length
    ELSE LET charData == GetCharData(font, text[i])
         IN  IF charData = NoCharData THEN length
             ELSE WidthLoop(font, text, i + 1,
                            length + charData.xAdvance
                                + (IF i > 1 THEN GetKerning(font, text[i - 1], text[i])
                                   ELSE 0))

\* BitmapFont.width(text)
BitmapFontWidth(font, text) ==
    IF text = <<>> THEN 0 ELSE WidthLoop(font, text, 1, 0)

ProbeWidth ==
    /\ probe = NoProbe
    /\ \E font \in BitmapFonts, text \in Strings :
          probe' = [fn |-> "width", font |-> font, text |-> text,
                    width |-> BitmapFontWidth(font, text)]
    /\ UNCHANGED graphicsVars

\* The Vec2 pool. Vec2 objects are numbered: the vectors the caller holds
\* (origin, target, out, and the module's tempStart and tempEnd) are 1..5,
\* and a vector made inside Vec2.get() takes the next number. st is the
\* state threaded through a call: POOL, the number of vectors made so far,
\* and the value of out, which is a point with quotients as coordinates.
OriginVec == 1
TargetVec == 2
OutVec == 3
TempStartVec == 4
TempEndVec == 5
CallerVecs == {OriginVec, TargetVec, OutVec, TempStartVec, TempEndVec}

\* Vec2.get(): POOL.pop(), or a new Vec2 when the pool is empty.
Vec2Get(st) ==
    IF Len(st.pool) > 0
    THEN [vec |-> st.pool[Len(st.pool)],
          st |-> [st EXCEPT !.pool = SubSeq(@, 1, Len(@) - 1)]]
    ELSE [vec |-> st.made + 1, st |-> [st EXCEPT !.made = @ + 1]]

\* vec.put(): POOL.push(this)
Vec2Put(st, vec) == [st EXCEPT !.pool = Append(@, vec)]

\* A quotient with its denominator made positive.
Quotient(n, d) == IF d < 0 THEN <<-n, -d>> ELSE <<n, d>>

\* get isZero
IsZero(v) == v.x[1] = 0 /\ v.y[1] = 0

\* The square of Vec2.distance(a, v) as a quotient, a with whole coordinates.
DistanceSquared(a, v) ==
    <<(v.x[1] - a.x * v.x[2]) * (v.x[1] - a.x * v.x[2]) * v.y[2] * v.y[2]
        + (v.y[1] - a.y * v.y[2]) * (v.y[1] - a.y * v.y[2]) * v.x[2] * v.x[2],
      v.x[2] * v.x[2] * v.y[2] * v.y[2]>>

QuotientLess(p, q) == p[1] * q[2] < q[1] * p[2]

\* The end of linesIntersect once t and u are in range: the intersection
\* point is computed into a pooled vector when out is given.
StorePoint(st, p1Start, bx, by, t, bDotDPrep) ==
    IF ~st.out.given THEN st
    ELSE LET got == Vec2Get(st)
             point == [x |-> Quotient(p1Start.x * bDotDPrep + bx * t, bDotDPrep),
                       y |-> Quotient(p1Start.y * bDotDPrep + by * t, bDotDPrep)]
             s1 == got.st
             s2 == IF IsZero(s1.out.value)
                   THEN [s1 EXCEPT !.out.value = point]
                   ELSE Vec2Put(
                          IF QuotientLess(DistanceSquared(p1Start, point),
                                          DistanceSquared(p1Start, s1.out.value))
                          THEN [s1 EXCEPT !.out.value = point] ELSE s1,
                          p1Start.id)
         IN  Vec2Put(s2, got.vec)

\* linesIntersect(p1Start, p1End, p2Start, p2End, out) with the vectors it
\* takes from the pool and gives back: the state it leaves and its result.
LinesIntersectPooled(st, p1Start, p1End, p2Start, p2End) ==
    LET gotB == Vec2Get(st)
        gotD == Vec2Get(gotB.st)
        b == [x |-> p1End.x - p1Start.x, y |-> p1End.y - p1Start.y]
        d == [x |-> p2End.x - p2Start.x, y |-> p2End.y - p2Start.y]
        bDotDPrep == b.x * d.y - b.y * d.x
        gotC == Vec2Get(gotD.st)
        c == [x |-> p2Start.x - p1Start.x, y |-> p2Start.y - p1Start.y]
        t == c.x * d.y - c.y * d.x
        u == c.x * b.y - c.y * b.x
        putBD(s) == Vec2Put(Vec2Put(s, gotB.vec), gotD.vec)
        putBDC(s) == Vec2Put(putBD(s), gotC.vec)
    IN  IF bDotDPrep = 0
        THEN [st |-> putBD(gotD.st), result |-> FALSE]
        ELSE IF QuotientBelow0(t, bDotDPrep) \/ QuotientAbove1(t, bDotDPrep)
        THEN [st |-> putBDC(gotC.st), result |-> FALSE]
        ELSE IF QuotientBelow0(u, bDotDPrep) \/ QuotientAbove1(u, bDotDPrep)
        THEN [st |-> putBDC(gotC.st), result |-> FALSE]
        ELSE [st |-> putBDC(StorePoint(gotC.st, p1Start, b.x, b.y, t, bDotDPrep)),
              result |-> TRUE]

\* A vector object with its value.
Vec(id, pt) == [id |-> id, x |-> pt.x, y |-> pt.y]

\* One of the four checks of intersectsLine: tempStart and tempEnd are set
\* and handed to linesIntersect with the caller's origin, target and out.
CheckEdgePooled(acc, origin, target, edge) ==
    LET r == LinesIntersectPooled(acc.st, Vec(OriginVec, origin), Vec(TargetVec, target),
                                  Vec(TempStartVec, edge[1]), Vec(TempEndVec, edge[2]))
    IN  [st |-> r.st, result |-> acc.result \/ r.result]

\* Rectangle.intersectsLine(origin, target, out) with the pool.
IntersectsLinePooled(st, r, origin, target) ==
    CheckEdgePooled(
        CheckEdgePooled(
            CheckEdgePooled(
                CheckEdgePooled([st |-> st, result |-> FALSE],
                                origin, target, CheckTop(r)),
                origin, target, CheckRight(r)),
            origin, target, CheckBottom(r)),
        origin, target, CheckLeft(r))

\* The arguments tried: the pool empty or holding one released vector, and
\* out absent, given as a new Vec2 (zero), or given with a value.
WholePoint(x, y) == [x |-> Quotient(x, 1), y |-> Quotient(y, 1)]
OutArgs ==
    {[given |-> FALSE, value |-> WholePoint(0, 0)],
     [given |-> TRUE, value |-> WholePoint(0, 0)],
     [given |-> TRUE, value |-> WholePoint(4, 4)]}
PoolStates == {[pool |-> <<>>, made |-> 5], [pool |-> <<6>>, made |-> 6]}

ProbeIntersectsLinePooled ==
    /\ probe = NoProbe
    /\ \E r \in Rectangles, origin \in GridPoints, target \in GridPoints,
          out \in OutArgs, before \in PoolStates :
          LET st == [pool |-> before.pool, made |-> before.made, out |-> out]
              after == IntersectsLinePooled(st, r, origin, target)
          IN  probe' = [fn |-> "intersectsLine with pool", rect |-> r,
                        origin |-> origin, target |-> target, before |-> st,
                        after |-> after.st, result |-> after.result]
    /\ UNCHANGED graphicsVars

\* Color.fromHex. A string is a sequence of characters.
HexDigits ==
    {"0", "1", "2", "3", "4", "5", "6", "7", "8", "9",
     "a", "b", "c", "d", "e", "f", "A", "B", "C", "D", "E", "F"}

\* The value of a digit character.
DigitValue(ch) ==
    CASE ch \in {"0"} -> 0 [] ch \in {"1"} -> 1 [] ch \in {"2"} -> 2
      [] ch \in {"3"} -> 3 [] ch \in {"4"} -> 4 [] ch \in {"5"} -> 5
      [] ch \in {"6"} -> 6 [] ch \in {"7"} -> 7 [] ch \in {"8"} -> 8
      [] ch \in {"9"} -> 9 [] ch \in {"a", "A"} -> 10 [] ch \in {"b", "B"} -> 11
      [] ch \in {"c", "C"} -> 12 [] ch \in {"d", "D"} -> 13
      [] ch \in {"e", "E"} -> 14 [] ch \in {"f", "F"} -> 15
      [] OTHER -> 99

\* HEX_COLOR_REGEX.exec(hex): '#' and four groups of two hex digits, or null.
HexColorMatches(hex) ==
    /\ Len(hex) = 9
    /\ hex[1] = "#"
    /\ \A k \in 2..9 : hex[k] \in HexDigits

\* matches[k], k in 1..4
HexGroup(hex, k) == <<hex[2 * k], hex[2 * k + 1]>>

\* Number.parseInt(string, radix) for an unsigned string without blanks: a
\* prefix 0x is dropped only under radix 16, then the longest run of digits
\* below the radix is read; NaN (-1 here) when that run is empty.
RECURSIVE ParseDigits(_, _, _, _)
ParseDigits(str, radix, i, value) ==
    IF i > Len(str) \/ DigitValue(str[i]) >= radix THEN value
    ELSE ParseDigits(str, radix, i + 1, value * radix + DigitValue(str[i]))

ParseInt(str, radix) ==
    LET digits == IF radix = 16 /\ Len(str) >= 2 /\ str[1] = "0" /\ str[2] \in {"x", "X"}
                  THEN SubSeq(str, 3, Len(str)) ELSE str
    IN  IF digits = <<>> \/ DigitValue(digits[1]) >= radix THEN -1
        ELSE ParseDigits(digits, radix, 1, 0)

\* clamp(value, min, max) of mathUtils
Clamp(value, min, max) ==
    IF value < min THEN min ELSE IF value > max THEN max ELSE value

\* Color.fromBytes(red, green, blue, alpha)
FromBytes(red, green, blue, alpha) ==
    [red |-> Div(Clamp(red, 0, 255), 255), green |-> Div(Clamp(green, 0, 255), 255),
     blue |-> Div(Clamp(blue, 0, 255), 255), alpha |-> Div(Clamp(alpha, 0, 255), 255)]

\* Color.fromHex(hex): the color, or the Error thrown.
FromHex(hex) ==
    IF HexColorMatches(hex)
    THEN [threw |-> FALSE,
          color |-> FromBytes(ParseInt(<<"0", "x">> \o HexGroup(hex, 1), 10),
                              ParseInt(<<"0", "x">> \o HexGroup(hex, 2), 10),
                              ParseInt(<<"0", "x">> \o HexGroup(hex, 3), 10),
                              ParseInt(<<"0", "x">> \o HexGroup(hex, 4), 10))]
    ELSE [threw |-> TRUE]

\* The arguments tried: every string '#' + four of five digit pairs, and
\* strings that are not a '#' with 8 hex digits.
DigitPairs == {<<"0", "0">>, <<"8", "0">>, <<"f", "f">>, <<"1", "A">>, <<"C", "8">>}
HexStrings ==
    {<<"#">> \o r \o g \o b \o a :
        r \in DigitPairs, g \in DigitPairs, b \in DigitPairs, a \in DigitPairs}
NotHexStrings ==
    {<<>>, <<"#">>, <<"#", "8", "0", "8", "0", "8", "0">>,
     <<"8", "0", "8", "0", "8", "0", "8", "0">>,
     <<"#", "8", "0", "8", "0", "8", "0", "8", "g">>,
     <<"#", "8", "0", "8", "0", "8", "0", "8", "0", "8">>}

ProbeFromHex ==
    /\ probe = NoProbe
    /\ \E hex \in HexStrings \cup NotHexStrings :
          probe' = [fn |-> "fromHex", hex |-> hex, out |-> FromHex(hex)]
    /\ UNCHANGED graphicsVars

NextGeometry ==
    \/ ProbeGetFlippedUV
    \/ ProbeDrawBitmapText
    \/ ProbeIntersectsLine
    \/ ProbeDrawImage
    \/ ProbeWidth
    \/ ProbeIntersectsLinePooled
    \/ ProbeFromHex

SpecGeometry == Init /\ [][NextGeometry]_vars

(***************************************************************************)
(* di/services.ts: the service registry                                    *)
(***************************************************************************)

\* A service is any value (unknown): two objects and the number 0 are tried.
ServiceValues ==
    {[kind |-> "object", id |-> 1], [kind |-> "object", id |-> 2],
     [kind |-> "number", id |-> 0]}

\* !service
Falsy(service) == service.kind = "undefined" \/ (service.kind = "number" /\ service.id = 0)

\* getService(name): what it returns, or the Error it throws.
GetServiceResult(name) ==
    IF Falsy(container[name])
    THEN [call |-> "getService", name |-> name, threw |-> TRUE, value |-> Undefined]
    ELSE [call |-> "getService", name |-> name, threw |-> FALSE,
          value |-> container[name]]

GetService ==
    /\ \E name \in ServiceNames : serviceReturn' = GetServiceResult(name)
    /\ UNCHANGED <<container, added>>
    /\ UNCHANGED <<rendererVars, probe, audioVars, emitterVars, assetVars>>

AddService ==
    /\ \E name \in ServiceNames, service \in ServiceValues :
          /\ container' = [container EXCEPT ![name] = service]
          /\ added' = [added EXCEPT ![name] = service]
          /\ serviceReturn' = [call |-> "addService", name |-> name]
    /\ UNCHANGED <<rendererVars, probe, audioVars, emitterVars, assetVars>>

RemoveService ==
    /\ \E name \in ServiceNames :
          /\ container' = IF ~Falsy(container[name])
                          THEN [container EXCEPT ![name] = Undefined]
                          ELSE container
          /\ added' = [added EXCEPT ![name] = Undefined]
          /\ serviceReturn' = [call |-> "removeService", name |-> name]
    /\ UNCHANGED <<rendererVars, probe, audioVars, emitterVars, assetVars>>

ClearServices ==
    /\ container' = [name \in ServiceNames |-> Undefined]
    /\ added' = [name \in ServiceNames |-> Undefined]
    /\ serviceReturn' = [call |-> "clearServices", name |-> None]
    /\ UNCHANGED <<rendererVars, probe, audioVars, emitterVars, assetVars>>

NextServices ==
    \/ GetService
    \/ AddService
    \/ RemoveService
    \/ ClearServices

SpecServices == Init /\ [][NextServices]_vars

(***************************************************************************)
(* Emitter (part_011): on, off, emit                                       *)
(*                                                                         *)
(* registry holds the EmitHandler objects ever created, a handler being    *)
(* known by its position; handlers[event] is the array of the handlers     *)
(* registered for the event (a missing array behaves as an empty one in    *)
(* off and emit).  A callback is one of a few scripts: it does nothing,    *)
(* unregisters itself, unregisters the handler created last, or registers  *)
(* one more handler for the same event.                                    *)
(***************************************************************************)

MaxHandlers == 2

EmitData == {0, 1}

\* The parameters tried for on(): event, callback and filter.
OnParams ==
    {[event |-> "tick", does |-> d, filter |-> "none"] :
        d \in {"nothing", "offSelf", "offNewest", "on"}}
    \cup {[event |-> "tick", does |-> "nothing", filter |-> "positive"],
          [event |-> "resize", does |-> "nothing", filter |-> "none"]}

\* const handler = { callback, filter, active: true }
NewHandler(params) ==
    [event |-> params.event, does |-> params.does, filter |-> params.filter,
     active |-> TRUE]

\* this.handlers[event].push(handler), the handler being the next object.
Push(hs, reg, params) ==
    [handlers |-> [hs EXCEPT ![params.event] = Append(@, Len(reg) + 1)],
     registry |-> Append(reg, NewHandler(params))]

\* indexOf(handler): 0 stands for -1.
IndexOf(list, h) ==
    IF \E k \in 1..Len(list) : list[k] = h
    THEN CHOOSE k \in 1..Len(list) : list[k] = h /\ \A j \in 1..(k - 1) : list[j] # h
    ELSE 0

\* splice(index, 1)
Splice(list, index) ==
    [k \in 1..(Len(list) - 1) |-> IF k < index THEN list[k] ELSE list[k + 1]]

\* off(event, handler) on the arrays hs.
OffIn(hs, event, h) ==
    IF IndexOf(hs[event], h) # 0
    THEN [hs EXCEPT ![event] = Splice(@, IndexOf(@, h))]
    ELSE hs

\* !handler.filter || handler.filter(...data)
Accepts(handler, data) == handler.filter = "none" \/ data > 0

\* handler.callback(...data): what the script of handler h does to the
\* emitter.
Callback(hs, reg, h) ==
    IF reg[h].does = "offSelf"
    THEN [handlers |-> OffIn(hs, reg[h].event, h), registry |-> reg]
    ELSE IF reg[h].does = "offNewest"
    THEN [handlers |-> OffIn(hs, reg[h].event, Len(reg)), registry |-> reg]
    ELSE IF reg[h].does = "on"
    THEN Push(hs, reg, [event |-> reg[h].event, does |-> "nothing", filter |-> "none"])
    ELSE [handlers |-> hs, registry |-> reg]

\* for (const handler of this.handlers[event]): the iterator reads the
\* array as it is at each step, position i being the next one to visit.
RECURSIVE EmitLoop(_, _, _, _, _, _)
EmitLoop(event, data, hs, reg, i, invoked) ==
    IF i > Len(hs[event])
    THEN [handlers |-> hs, registry |-> reg, invoked |-> invoked]
    ELSE IF reg[hs[event][i]].active /\ Accepts(reg[hs[event][i]], data)
    THEN EmitLoop(event, data, Callback(hs, reg, hs[event][i]).handlers, Callback(hs, reg, hs[event][i]).registry, i + 1, Append(invoked, hs[event][i]))
    ELSE EmitLoop(event, data, hs, reg, i + 1, invoked)

\* The handlers that are registered for event, active and accepting data.
Eligible(event, data) ==
    SelectSeq(handlers[event], LAMBDA h : registry[h].active /\ Accepts(registry[h], data))

\* The handlers a single emit may register.
Registering(event) ==
    Cardinality({k \in 1..Len(handlers[event]) : registry[handlers[event][k]].does = "on"})

On ==
    /\ Len(registry) < MaxHandlers
    /\ \E params \in OnParams :
          /\ handlers' = Push(handlers, registry, params).handlers
          /\ registry' = Push(handlers, registry, params).registry
    /\ emitLog' = NoEmit
    /\ UNCHANGED <<rendererVars, probe, audioVars, serviceVars, assetVars>>

Off ==
    /\ \E event \in Events, h \in 1..Len(registry) :
          handlers' = OffIn(handlers, event, h)
    /\ emitLog' = NoEmit
    /\ UNCHANGED registry
    /\ UNCHANGED <<rendererVars, probe, audioVars, serviceVars, assetVars>>

\* handler.active = false, by the holder of the handler.
Deactivate ==
    /\ \E h \in 1..Len(registry) :
          /\ registry[h].active
          /\ registry' = [registry EXCEPT ![h].active = FALSE]
    /\ emitLog' = NoEmit
    /\ UNCHANGED handlers
    /\ UNCHANGED <<rendererVars, probe, audioVars, serviceVars, assetVars>>

Emit ==
    /\ \E event \in Events, data \in EmitData :
          /\ Len(registry) + Registering(event) <= MaxHandlers + 1
          /\ handlers' = EmitLoop(event, data, handlers, registry, 1, <<>>).handlers
          /\ registry' = EmitLoop(event, data, handlers, registry, 1, <<>>).registry
          /\ emitLog' = [event |-> event, atStart |-> Eligible(event, data),
                         invoked |-> EmitLoop(event, data, handlers, registry, 1, <<>>).invoked]
    /\ UNCHANGED <<rendererVars, probe, audioVars, serviceVars, assetVars>>

NextEmitter ==
    \/ On
    \/ Off
    \/ Deactivate
    \/ Emit

SpecEmitter == Init /\ [][NextEmitter]_vars

(***************************************************************************)
(* Assets.load and Assets.loadAll (part_007)                               *)
(*                                                                         *)
(* One loadAll call is followed at a time.  requested is the list it was   *)
(* given, an asset being known by what its load does: it succeeds, it      *)
(* fails, or no loader is registered for its type.  loadState[i] is the    *)
(* promise of load() for asset i, "handled" once the callback loadAll      *)
(* attached to it has run; promise is the promise loadAll returned.        *)
(***************************************************************************)

MaxAssets == 3

AssetKinds == {"loads", "fails", "unregistered"}

AssetLists == UNION {[1..n -> AssetKinds] : n \in 0..MaxAssets}

\* load(type, id, path, props): without a loader the promise is rejected
\* in the executor, otherwise it follows the loader's promise.
Load(kind) == IF kind = "unregistered" THEN "rejected" ELSE "loading"

\* No load of the call is in flight and no callback is left to run.
Quiet == \A i \in 1..Len(loadState) : loadState[i] = "handled"

LoadAll ==
    /\ promise = None \/ (promise # "pending" /\ Quiet)
    /\ \E assets \in AssetLists :
          /\ requested' = assets
          /\ loadState' = [i \in 1..Len(assets) |-> Load(assets[i])]
    /\ loaded' = 0
    /\ promise' = "pending"
    /\ UNCHANGED <<rendererVars, probe, audioVars, serviceVars, emitterVars>>

\* The loader's promise settles and load() resolves or rejects with it.
LoaderSettles ==
    /\ \E i \in 1..Len(loadState) :
          /\ loadState[i] = "loading"
          /\ loadState' = [loadState EXCEPT ![i] = IF requested[i] = "loads" THEN "fulfilled" ELSE "rejected"]
    /\ UNCHANGED <<requested, loaded, promise>>
    /\ UNCHANGED <<rendererVars, probe, audioVars, serviceVars, emitterVars>>

\* .then(() => { loaded++; if (loaded === count) resolve(); })
Then ==
    /\ \E i \in 1..Len(loadState) :
          /\ loadState[i] = "fulfilled"
          /\ loadState' = [loadState EXCEPT ![i] = "handled"]
    /\ loaded' = loaded + 1
    /\ promise' = IF loaded + 1 = Len(requested) /\ promise = "pending"
                  THEN "resolved"
                  ELSE promise
    /\ UNCHANGED requested
    /\ UNCHANGED <<rendererVars, probe, audioVars, serviceVars, emitterVars>>

\* .catch((reason) => { reject(new Error(reason as string)); })
Catch ==
    /\ \E i \in 1..Len(loadState) :
          /\ loadState[i] = "rejected"
          /\ loadState' = [loadState EXCEPT ![i] = "handled"]
    /\ promise' = IF promise = "pending" THEN "rejected" ELSE promise
    /\ UNCHANGED <<requested, loaded>>
    /\ UNCHANGED <<rendererVars, probe, audioVars, serviceVars, emitterVars>>

NextAssets ==
    \/ LoadAll
    \/ LoaderSettles
    \/ Then
    \/ Catch

\* Every loader settles its promise, and the callbacks of settled promises
\* are run by the job queue.
SpecAssets ==
    /\ Init
    /\ [][NextAssets]_vars
    /\ WF_vars(LoaderSettles)
    /\ WF_vars(Then)
    /\ WF_vars(Catch)

(***************************************************************************)
(* Audio and AudioChannel (audio.ts, audioChannel.ts)                      *)
(*                                                                         *)
(* audioChannels[id] is channel id with its fields; a volume is counted in *)
(* hundredths.  sources holds the buffer sources created by play(), a      *)
(* source being known by its position (0 for undefined): the sound and the *)
(* channel its onended closure captured, and whether it is playing, has    *)
(* its 'ended' event queued ("ending"), or has had it delivered ("done").  *)
(* startTime and pauseTime only choose the offset a sound starts from and  *)
(* are left out.  audioReturn is the last call and what it returned.       *)
(***************************************************************************)

MaxSources == 3

Sounds == {"S1", "S2"}

Loops == {0, 1}

\* The values tried for setVolume.
Volumes == {50}

\* play() is called with the default volume, 1.
PlayVolumes == {100}

\* An optional channelId argument.
ChannelArgs ==
    {[given |-> FALSE, id |-> 0]} \cup {[given |-> TRUE, id |-> c] : c \in ChannelIds}

\* if (channelId): undefined and 0 are both falsy.
Truthy(arg) == arg.given /\ arg.id # 0

AudioState == [channels |-> audioChannels, sources |-> sources]

\* source.stop(): a source that is playing ends, and its 'ended' event is
\* queued.
StopSource(srcs, s) ==
    IF srcs[s].state = "playing" THEN [srcs EXCEPT ![s].state = "ending"] ELSE srcs

\* AudioChannel.stop()
ChannelStop(st, id) ==
    IF st.channels[id].source # 0
    THEN [channels |-> [st.channels EXCEPT ![id].source = 0, ![id].ended = TRUE, ![id].paused = TRUE],
          sources |-> StopSource(st.sources, st.channels[id].source)]
    ELSE st

\* AudioChannel.pause(time)
ChannelPause(st, id) ==
    IF st.channels[id].source # 0
    THEN [channels |-> [st.channels EXCEPT ![id].source = 0, ![id].paused = TRUE],
          sources |-> StopSource(st.sources, st.channels[id].source)]
    ELSE st

\* getFreeChannel(): the first channel that has ended, or -1.
GetFreeChannel(channels) ==
    IF \E i \in ChannelIds : channels[i].ended
    THEN CHOOSE i \in ChannelIds : channels[i].ended /\ \A j \in 0..(i - 1) : ~channels[j].ended
    ELSE -1

\* The channel a stopped sound leaves behind, if there was a sound.
StopIfSound(st, id) == IF st.channels[id].sound # None THEN ChannelStop(st, id) ELSE st

\* play({ sound, loop, volume, channelId: id }) from the stop of the
\* channel's sound on; the new source is the next object.
PlayOn(st, sound, loop, volume, id) ==
    [channels |-> [StopIfSound(st, id).channels EXCEPT ![id] = [sound |-> sound, source |-> Len(st.sources) + 1, loop |-> loop, ended |-> FALSE, paused |-> FALSE, volume |-> Clamp(volume, 0, 100)]],
     sources |-> Append(StopIfSound(st, id).sources, [sound |-> sound, channel |-> id, state |-> "playing"])]

\* channel.loop-- unless it is -1.
Decrement(st, id) ==
    IF st.channels[id].loop # -1
    THEN [st EXCEPT !.channels[id].loop = @ - 1]
    ELSE st

\* source.onended of source s: event.target is the source the closure
\* captured, whichever source the channel holds now.
OnEnded(st, s) ==
    IF st.channels[st.sources[s].channel].paused
    THEN st
    ELSE IF st.channels[st.sources[s].channel].loop > 0 \/ st.channels[st.sources[s].channel].loop = -1
    THEN PlayOn(Decrement(st, st.sources[s].channel), st.sources[s].sound, Decrement(st, st.sources[s].channel).channels[st.sources[s].channel].loop, st.channels[st.sources[s].channel].volume, st.sources[s].channel)
    ELSE IF st.channels[st.sources[s].channel].loop = 0
    THEN ChannelStop(st, st.sources[s].channel)
    ELSE st

\* The callback of source s will call play().
Replays(s) ==
    /\ ~audioChannels[sources[s].channel].paused
    /\ audioChannels[sources[s].channel].loop > 0 \/ audioChannels[sources[s].channel].loop = -1

\* resume() of one channel.
ResumeChannel(st, id) ==
    IF st.channels[id].paused /\ st.channels[id].sound # None
    THEN PlayOn(st, st.channels[id].sound, st.channels[id].loop, st.channels[id].volume, id)
    ELSE st

\* for (const channel of channels) channel.stop(), from channel i on.
RECURSIVE StopAll(_, _)
StopAll(st, i) == IF i >= CHANNEL_COUNT THEN st ELSE StopAll(ChannelStop(st, i), i + 1)

RECURSIVE PauseAll(_, _)
PauseAll(st, i) == IF i >= CHANNEL_COUNT THEN st ELSE PauseAll(ChannelPause(st, i), i + 1)

RECURSIVE ResumeAll(_, _)
ResumeAll(st, i) == IF i >= CHANNEL_COUNT THEN st ELSE ResumeAll(ResumeChannel(st, i), i + 1)

\* const id = channelId !== -1 ? channelId : this.getFreeChannel()
PlayId(arg) == IF arg.given THEN arg.id ELSE GetFreeChannel(audioChannels)

Play ==
    /\ Len(sources) < MaxSources
    /\ \E sound \in Sounds, loop \in Loops, volume \in PlayVolumes, arg \in ChannelArgs :
          IF PlayId(arg) = -1
          THEN /\ audioReturn' = [call |-> "play", arg |-> arg, threw |-> TRUE, id |-> -1]
               /\ UNCHANGED <<audioChannels, sources>>
          ELSE /\ audioChannels' = PlayOn(AudioState, sound, loop, volume, PlayId(arg)).channels
               /\ sources' = PlayOn(AudioState, sound, loop, volume, PlayId(arg)).sources
               /\ audioReturn' = [call |-> "play", arg |-> arg, threw |-> FALSE, id |-> PlayId(arg)]
    /\ UNCHANGED mainGain
    /\ UNCHANGED <<rendererVars, probe, serviceVars, emitterVars, assetVars>>

Stop ==
    /\ \E arg \in ChannelArgs :
          /\ audioChannels' = IF Truthy(arg) THEN ChannelStop(AudioState, arg.id).channels ELSE StopAll(AudioState, 0).channels
          /\ sources' = IF Truthy(arg) THEN ChannelStop(AudioState, arg.id).sources ELSE StopAll(AudioState, 0).sources
          /\ audioReturn' = [call |-> "stop", arg |-> arg]
    /\ UNCHANGED mainGain
    /\ UNCHANGED <<rendererVars, probe, serviceVars, emitterVars, assetVars>>

Pause ==
    /\ \E arg \in ChannelArgs :
          /\ audioChannels' = IF Truthy(arg) THEN ChannelPause(AudioState, arg.id).channels ELSE PauseAll(AudioState, 0).channels
          /\ sources' = IF Truthy(arg) THEN ChannelPause(AudioState, arg.id).sources ELSE PauseAll(AudioState, 0).sources
          /\ audioReturn' = [call |-> "pause", arg |-> arg]
    /\ UNCHANGED mainGain
    /\ UNCHANGED <<rendererVars, probe, serviceVars, emitterVars, assetVars>>

\* The sources a resume of every channel creates.
Resumable == Cardinality({id \in ChannelIds : audioChannels[id].paused /\ audioChannels[id].sound # None})

Resume ==
    /\ Len(sources) + Resumable <= MaxSources
    /\ \E arg \in ChannelArgs :
          /\ audioChannels' = IF Truthy(arg) THEN ResumeChannel(AudioState, arg.id).channels ELSE ResumeAll(AudioState, 0).channels
          /\ sources' = IF Truthy(arg) THEN ResumeChannel(AudioState, arg.id).sources ELSE ResumeAll(AudioState, 0).sources
          /\ audioReturn' = [call |-> "resume", arg |-> arg]
    /\ UNCHANGED mainGain
    /\ UNCHANGED <<rendererVars, probe, serviceVars, emitterVars, assetVars>>

SetVolume ==
    /\ \E value \in Volumes, arg \in ChannelArgs :
          /\ audioChannels' = IF Truthy(arg) THEN [audioChannels EXCEPT ![arg.id].volume = Clamp(value, 0, 100)] ELSE audioChannels
          /\ mainGain' = IF Truthy(arg) THEN mainGain ELSE value
          /\ audioReturn' = [call |-> "setVolume", arg |-> arg]
    /\ UNCHANGED sources
    /\ UNCHANGED <<rendererVars, probe, serviceVars, emitterVars, assetVars>>

GetVolume ==
    /\ \E arg \in ChannelArgs :
          audioReturn' = [call |-> "getVolume", arg |-> arg, value |-> IF Truthy(arg) THEN audioChannels[arg.id].volume ELSE mainGain]
    /\ UNCHANGED <<audioChannels, mainGain, sources>>
    /\ UNCHANGED <<rendererVars, probe, serviceVars, emitterVars, assetVars>>

\* A source reaches the end of its buffer.
SourceEnds ==
    /\ \E s \in 1..Len(sources) :
          /\ sources[s].state = "playing"
          /\ sources' = [sources EXCEPT ![s].state = "ending"]
          /\ audioReturn' = [call |-> "ended"]
    /\ UNCHANGED <<audioChannels, mainGain>>
    /\ UNCHANGED <<rendererVars, probe, serviceVars, emitterVars, assetVars>>

\* The 'ended' event of source s is delivered and its onended runs.
DeliverEnded ==
    /\ \E s \in 1..Len(sources) :
          /\ sources[s].state = "ending"
          /\ Replays(s) => Len(sources) < MaxSources
          /\ audioChannels' = OnEnded([channels |-> audioChannels, sources |-> [sources EXCEPT ![s].state = "done"]], s).channels
          /\ sources' = OnEnded([channels |-> audioChannels, sources |-> [sources EXCEPT ![s].state = "done"]], s).sources
          /\ audioReturn' = [call |-> "onended"]
    /\ UNCHANGED mainGain
    /\ UNCHANGED <<rendererVars, probe, serviceVars, emitterVars, assetVars>>

NextAudio ==
    \/ Play
    \/ Stop
    \/ Pause
    \/ Resume
    \/ SetVolume
    \/ GetVolume
    \/ SourceEnds
    \/ DeliverEnded

SpecAudio == Init /\ [][NextAudio]_vars

(***************************************************************************)
(* Vocabulary of the properties                                            *)
(***************************************************************************)

LastCall == history[Len(history)]

\* The draw calls issued since the i-th Graphics call was made.
CallsSince(i) == SubSeq(drawCalls, history[i].calls + 1, Len(drawCalls))

\* The draw calls issued while the j-th Graphics call ran.
CallsDuring(j) ==
    SubSeq(drawCalls, history[j].calls + 1,
           IF j < Len(history) THEN history[j + 1].calls ELSE Len(drawCalls))

\* The calls of a sequence of draw calls that one batch issued.
RECURSIVE OfKind(_, _)
OfKind(calls, kind) ==
    IF calls = <<>> THEN <<>>
    ELSE (IF Head(calls).kind = kind THEN <<Head(calls)>> ELSE <<>>)
         \o OfKind(Tail(calls), kind)

\* All primitives submitted to the GPU, in submission order.
RECURSIVE PrimsOf(_)
PrimsOf(calls) ==
    IF calls = <<>> THEN <<>> ELSE Head(calls).prims \o PrimsOf(Tail(calls))

\* The batch a Graphics call appends to.
BatchOf(e) == IF e.call = "shape" THEN "shape" ELSE "image"

IsShapeDraw(e) == e.call = "shape"

\* The Graphics calls that append one quad: drawImage, drawImagePoints, drawRenderTarget.
IsQuadDraw(e) == e.call \in {"image", "target"}

IsImageBatchDraw(e) == e.call \in {"image", "target", "text"}

\* The batch that call e appends to was Idle when e was made: its cursor was 0
\* and, for the image batch, no image or target was bound.
IdleBefore(e) ==
    IF e.call = "shape" THEN e.shapeIndex = 0
    ELSE e.imageIndex = 0 /\ e.currentImage = None /\ e.currentTarget = None

\* The cursor now of the batch that call e appends to.
CursorNow(e) == IF e.call = "shape" THEN shapeIndex ELSE imageIndex

\* Calls i..j of the history append to one batch with one texture source.
SameKindRun(i, j) ==
    /\ 1 <= i /\ i <= j /\ j <= Len(history)
    /\ IsShapeDraw(history[i]) \/ IsQuadDraw(history[i])
    /\ \A k \in i..j : history[k].call = history[i].call /\ history[k].src = history[i].src

\* Number of primitives calls i..j append.
RECURSIVE RunPrims(_, _)
RunPrims(i, j) == IF i > j THEN 0 ELSE history[i].n + RunPrims(i + 1, j)

CeilDiv(n, d) == (n + d - 1) \div d

(***************************************************************************)
(* C1                                                                      *)
(***************************************************************************)

\* C1: every Graphics draw call flushes the other batch before appending, so
\* after any sequence of Graphics calls at most one of the two batches has
\* pending primitives (writeCursor > 0).
C1_OneBatchPending == ~(shapeIndex > 0 /\ imageIndex > 0)

(***************************************************************************)
(* C2                                                                      *)
(***************************************************************************)

\* Shape A, image B, shape C (each fitting the buffer) and commit, made with
\* both batches idle, issue three draw calls: shape(A), image(B), shape(C).
C2_Scenario ==
    \A i \in 1..Len(history) :
        ( /\ i + 3 = Len(history)
          /\ history[i].call = "shape" /\ history[i].n <= BUFFER_SIZE
          /\ history[i].shapeIndex = 0 /\ history[i].imageIndex = 0
          /\ history[i + 1].call = "image"
          /\ history[i + 2].call = "shape" /\ history[i + 2].n <= BUFFER_SIZE
          /\ history[i + 3].call = "commit" )
        => LET c == CallsSince(i) IN
           /\ Len(c) = 3
           /\ c[1].kind = "shape" /\ c[1].count = history[i].n
           /\ \A p \in 1..Len(c[1].prims) : c[1].prims[p].op = i
           /\ c[2].kind = "image" /\ c[2].count = 1 /\ c[2].tex = history[i + 1].src
           /\ \A p \in 1..Len(c[2].prims) : c[2].prims[p].op = i + 1
           /\ c[3].kind = "shape" /\ c[3].count = history[i + 2].n
           /\ \A p \in 1..Len(c[3].prims) : c[3].prims[p].op = i + 2

\* No shape draw call holds triangles of two Graphics calls that have an image
\* draw between them.
C2_NoMerge ==
    \A k \in 1..Len(drawCalls) :
        drawCalls[k].kind = "shape" =>
            \A p, q \in 1..Len(drawCalls[k].prims) :
                \A j \in (drawCalls[k].prims[p].op + 1)..(drawCalls[k].prims[q].op - 1) :
                    ~IsImageBatchDraw(history[j])

\* Primitives reach the GPU in the order of the Graphics calls that made them.
C2_InOrder ==
    LET sub == PrimsOf(drawCalls) IN
    \A a, b \in 1..Len(sub) : a < b => sub[a].op <= sub[b].op

\* C2: draw order is preserved across batch types: shape A, image B, shape C and
\* commit issue exactly the draw calls shape(A), image(B), shape(C); shapes on
\* either side of an image draw are never merged into one draw call; primitives
\* are submitted in the order their draw calls were made.
C2_DrawOrderPreserved == C2_Scenario /\ C2_NoMerge /\ C2_InOrder

(***************************************************************************)
(* C3                                                                      *)
(***************************************************************************)

\* C3: in both batches the write cursor never exceeds BUFFER_SIZE and no
\* primitive is written at a buffer position at or beyond capacity.
C3_WithinCapacity ==
    /\ shapeIndex <= BUFFER_SIZE
    /\ imageIndex <= BUFFER_SIZE
    /\ ~wroteBeyond

(***************************************************************************)
(* C4                                                                      *)
(***************************************************************************)

\* C4: all unflushed quads of the image batch belong to one texture source, and
\* every image draw call binds the source of the quads it submits.
C4_SingleSource ==
    /\ \A i, j \in 1..Len(imageBuf) : imageBuf[i].src = imageBuf[j].src
    /\ \A k \in 1..Len(drawCalls) :
          drawCalls[k].kind = "image" =>
              \A p \in 1..Len(drawCalls[k].prims) :
                  drawCalls[k].prims[p].src = drawCalls[k].tex

(***************************************************************************)
(* C5                                                                      *)
(***************************************************************************)

\* Quads of the k-th Graphics call submitted in a draw call bound to source src.
DrawnWith(k, src) ==
    Cardinality({cp \in (1..Len(drawCalls)) \X (1..BUFFER_SIZE) :
                    /\ drawCalls[cp[1]].kind = "image"
                    /\ drawCalls[cp[1]].tex = src
                    /\ cp[2] <= Len(drawCalls[cp[1]].prims)
                    /\ drawCalls[cp[1]].prims[cp[2]].op = k})

NoStartBetween(k, j) == \A m \in (k + 1)..(j - 1) : history[m].call # "start"

\* C5: once the frame is committed after a drawBitmapText, every character of
\* the text that has a glyph entry has been submitted as exactly one quad in a
\* draw call bound to the font's atlas, whatever the length of the text.
C5_TextFullyDrawn ==
    \A k, j \in 1..Len(history) :
        ( /\ k < j
          /\ history[k].call = "text"
          /\ history[j].call = "commit"
          /\ NoStartBetween(k, j) )
        => DrawnWith(k, history[k].src) = history[k].n

(***************************************************************************)
(* C6                                                                      *)
(***************************************************************************)

\* The history ends with a run of single-primitive draws of one kind and
\* texture that began at call i with that batch idle.
RunFromIdle(i) ==
    /\ SameKindRun(i, Len(history))
    /\ \A k \in i..Len(history) : history[k].n = 1
    /\ IdleBefore(history[i])

\* C6: from an idle batch, capacity appends of one kind and texture cause no
\* flush; the (capacity+1)-th causes exactly one flush of the capacity
\* primitives before it, made before the new primitive is written, and leaves
\* writeCursor = 1.
C6_CapacityBoundary ==
    \A i \in 1..Len(history) :
        RunFromIdle(i) =>
            LET n == Len(history) - i + 1
                own == OfKind(CallsSince(i), BatchOf(history[i]))
            IN  /\ n <= BUFFER_SIZE =>
                      /\ own = <<>>
                      /\ CursorNow(history[i]) = n
                /\ n = BUFFER_SIZE + 1 =>
                      /\ Len(own) = 1
                      /\ own[1].count = BUFFER_SIZE
                      /\ Len(own[1].prims) = BUFFER_SIZE
                      /\ \A p \in 1..BUFFER_SIZE : own[1].prims[p].op = i + p - 1
                      /\ CursorNow(history[i]) = 1

\* capacity + 1 triangles, or capacity + 1 quads of one image, have been drawn
\* from an idle batch and the one flush has happened.
C6_Witness ==
    /\ Len(history) = BUFFER_SIZE + 1
    /\ RunFromIdle(1)
    /\ Len(drawCalls) = 1
    /\ shapeIndex + imageIndex = 1

(***************************************************************************)
(* C7                                                                      *)
(***************************************************************************)

C8_TextureSwitch ==
    \A j \in 2..Len(history) :
        (IsQuadDraw(history[j - 1]) /\ IsQuadDraw(history[j])) =>
            LET x == history[j - 1]
                y == history[j]
                c == CallsDuring(j)
            IN  IF x.src # y.src
                THEN /\ Len(c) = 1
                     /\ c[1].tex = x.src
                     /\ \A p \in 1..Len(c[1].prims) : c[1].prims[p].src = x.src
                ELSE (x.call = "image" /\ y.imageIndex < BUFFER_SIZE) => c = <<>>

(***************************************************************************)
(* C9                                                                      *)
(***************************************************************************)

\* C9: after Graphics.commit returns both batches are idle: both write cursors
\* are 0 and the image batch has no bound image or target.
C9_IdleAfterFlush ==
    (history # <<>> /\ LastCall.call = "commit") =>
        /\ shapeIndex = 0
        /\ imageIndex = 0
        /\ currentImage = None
        /\ currentTarget = None

(***************************************************************************)
(* C10                                                                     *)
(***************************************************************************)

\* C10: a flush of a batch holding n > 0 primitives issues exactly one draw call
\* covering those n primitives, and a flush of an empty batch issues none:
\* Graphics.commit issues one shape call of the pending triangles (if any) and
\* then one image call of the pending quads (if any), and nothing else.
C10_FlushExact ==
    (history # <<>> /\ LastCall.call = "commit") =>
        LET c == CallsDuring(Len(history))
            s == OfKind(c, "shape")
            q == OfKind(c, "image")
        IN  /\ c = s \o q
            /\ Len(s) = (IF LastCall.shapeIndex > 0 THEN 1 ELSE 0)
            /\ Len(q) = (IF LastCall.imageIndex > 0 THEN 1 ELSE 0)
            /\ \A k \in 1..Len(s) : s[k].count = LastCall.shapeIndex
                                    /\ Len(s[k].prims) = LastCall.shapeIndex
            /\ \A k \in 1..Len(q) : q[k].count = LastCall.imageIndex
                                    /\ Len(q[k].prims) = LastCall.imageIndex

(***************************************************************************)
(* C11                                                                     *)
(***************************************************************************)

\* The last Graphics call was call, made with the transform stack at depth d.
LastWasAtDepth(call, d) ==
    /\ history # <<>>
    /\ LastCall.call = call
    /\ Len(LastCall.transformStack) = d

\* The last call left the transform stack, the matrices and the pool as they were.
TransformsUntouched ==
    /\ transformStack = LastCall.transformStack
    /\ mats = LastCall.mats
    /\ pool = LastCall.pool

\* C11: the transform stack always holds at least the base frame, and
\* popTransform called when only the base frame remains throws and leaves the
\* stack (depth and contents) and the matrix pool unchanged.
C11_BaseFrameKept ==
    /\ Len(transformStack) >= 1
    /\ transformStack[1] = 1
    /\ LastWasAtDepth("popTransform", 1) => (thrown /\ TransformsUntouched)

\* popTransform was refused on the base frame, which had been transformed and
\* had a frame pushed on it and popped off before.
C11_Witness ==
    /\ LastWasAtDepth("popTransform", 1)
    /\ thrown
    /\ pool # <<>>
    /\ mats[transformStack[1]] # Identity

(***************************************************************************)
(* C12                                                                     *)
(***************************************************************************)

\* C12: the depth of the transform stack never exceeds MAX_TRANSFORM_STACK;
\* pushTransform called at that depth throws, pushes nothing, takes no matrix
\* from the pool (and makes none) and leaves the stack unchanged.
C12_TransformStackBounded ==
    /\ Len(transformStack) <= MAX_TRANSFORM_STACK
    /\ LastWasAtDepth("pushTransform", MAX_TRANSFORM_STACK)
          => (thrown /\ TransformsUntouched)

\* pushTransform was refused at full depth.
C12_Witness ==
    /\ LastWasAtDepth("pushTransform", MAX_TRANSFORM_STACK)
    /\ thrown
    /\ Len(transformStack) = MAX_TRANSFORM_STACK

(***************************************************************************)
(* C13                                                                     *)
(***************************************************************************)

LastWasAtTargetDepth(call, d) ==
    /\ history # <<>>
    /\ LastCall.call = call
    /\ Len(LastCall.targetStack) = d

\* C13: the depth of the render-target stack never exceeds MAX_TARGET_STACK;
\* pushTarget called at that depth throws and leaves the stack and the bound
\* framebuffer unchanged.
C13_TargetStackBounded ==
    /\ Len(targetStack) <= MAX_TARGET_STACK
    /\ LastWasAtTargetDepth("pushTarget", MAX_TARGET_STACK)
          => /\ thrown
             /\ targetStack = LastCall.targetStack
             /\ framebuffer = LastCall.framebuffer

\* pushTarget of a target other than the bound one was refused at full depth.
C13_Witness ==
    /\ LastWasAtTargetDepth("pushTarget", MAX_TARGET_STACK)
    /\ thrown
    /\ LastCall.src # LastCall.framebuffer

(***************************************************************************)
(* C14                                                                     *)
(***************************************************************************)

\* C14: popTarget called when the render-target stack is empty throws.
C14_PopEmptyThrows == LastWasAtTargetDepth("popTarget", 0) => thrown

(***************************************************************************)
(* C15                                                                     *)
(***************************************************************************)

\* The value of the top of the transform stack when the i-th call was made.
TopValueBefore(i) ==
    history[i].mats[history[i].transformStack[Len(history[i].transformStack)]]

\* The history ends with a pushTransform that was accepted (call i), then
\* applyTransform calls only, then popTransform.
PushThenPop(i) ==
    /\ 1 <= i /\ i < Len(history)
    /\ history[i].call = "pushTransform"
    /\ Len(history[i].transformStack) < MAX_TRANSFORM_STACK
    /\ LastCall.call = "popTransform"
    /\ \A k \in (i + 1)..(Len(history) - 1) : history[k].call = "applyTransform"

\* C15: pushTransform (with or without a matrix) followed by popTransform
\* leaves the depth of the transform stack and the value of its top as they
\* were before the push, also when applyTransform changed the pushed matrix
\* in between.
C15_PushPopIdempotent ==
    \A i \in 1..Len(history) :
        PushThenPop(i) =>
            /\ ~thrown
            /\ Len(transformStack) = Len(history[i].transformStack)
            /\ mats[transformStack[Len(transformStack)]] = TopValueBefore(i)

\* A transformed frame had a caller's matrix pushed on it, the pushed frame was
\* transformed, and it was popped.
C15_Witness ==
    /\ Len(history) = 4
    /\ PushThenPop(2)
    /\ history[1].call = "applyTransform"
    /\ history[2].src.given
    /\ history[3].call = "applyTransform"
    /\ TopValueBefore(2) # Identity
    /\ Len(transformStack) = 1

(***************************************************************************)
(* C16                                                                     *)
(***************************************************************************)

\* What setShader(shader) makes of a batch of the given kind whose active
\* shader was current.
ExpectedShader(kind, default, current, shader) ==
    IF shader = NoShader THEN default
    ELSE IF shader.type = kind THEN shader
    ELSE current

\* C16: setShader with a shader of another type than the batch's leaves the
\* batch's active shader unchanged and raises no error, with a shader of the
\* batch's type makes it active, and without a shader restores the batch's
\* default; so the shape batch's active shader always has type 'shape' and the
\* image batch's type 'image'.
C16_SoftFailShader ==
    /\ shapeShader.type = "shape"
    /\ imageShader.type = "image"
    /\ (history # <<>> /\ LastCall.call = "setShader") =>
          /\ ~thrown
          /\ shapeShader = ExpectedShader("shape", DefaultShapeShader,
                                          LastCall.shapeShader, LastCall.src)
          /\ imageShader = ExpectedShader("image", DefaultImageShader,
                                          LastCall.imageShader, LastCall.src)

\* With the caller's shape shader active, setShader was given an image shader:
\* the shape batch kept its shader and the image batch took the new one.
C16_Witness ==
    /\ history # <<>>
    /\ LastCall.call = "setShader"
    /\ LastCall.src.type = "image"
    /\ LastCall.shapeShader # DefaultShapeShader
    /\ shapeShader = LastCall.shapeShader
    /\ imageShader = LastCall.src

(***************************************************************************)
(* C17                                                                     *)
(***************************************************************************)

\* C17: setShader flushes a batch's pending geometry before it changes the
\* batch's shader, so every primitive is drawn with the shader that was active
\* when it was appended.
C17_ShaderAtAppend ==
    \A k \in 1..Len(drawCalls) :
        \A p \in 1..Len(drawCalls[k].prims) :
            drawCalls[k].prims[p].shader = drawCalls[k].shader

(***************************************************************************)
(* C18                                                                     *)
(***************************************************************************)

\* C18: pushTarget, popTarget and clearTargets flush pending geometry before
\* they change the bound framebuffer, so every primitive is drawn into the
\* render target (or the canvas) that was current when it was appended.
C18_TargetAtAppend ==
    \A k \in 1..Len(drawCalls) :
        \A p \in 1..Len(drawCalls[k].prims) :
            drawCalls[k].prims[p].fb = drawCalls[k].fb

(***************************************************************************)
(* C19                                                                     *)
(***************************************************************************)

\* The vertices v carry the color and the transform that Graphics had when the
\* call that appended them was made.
SnapshotOfCall(v) ==
    /\ v.color = history[v.op].tint
    /\ v.pos = history[v.op].transform

\* C19: every Graphics drawing method, drawRenderTarget and drawBitmapText
\* included, appends its vertices with the value of Graphics.color and of the
\* top of the transform stack at the moment of the call.
C19_SnapshotAtCall ==
    /\ \A k \in 1..Len(shapeBuf) : SnapshotOfCall(shapeBuf[k])
    /\ \A k \in 1..Len(imageBuf) : SnapshotOfCall(imageBuf[k])
    /\ \A k \in 1..Len(drawCalls) :
          \A p \in 1..Len(drawCalls[k].prims) : SnapshotOfCall(drawCalls[k].prims[p])

(***************************************************************************)
(* C20                                                                     *)
(***************************************************************************)

\* The Graphics calls that change the color or the transform stack.
TintOrTransformCalls ==
    {"assignColor", "mutateColor", "pushTransform", "popTransform", "applyTransform"}

\* C20: a change of Graphics.color (a new object, or the same object changed
\* in place) or of the transform stack (push, pop, applyTransform) leaves the
\* vertices already appended to either batch as they were.
C20_BakedAtAppend ==
    (history # <<>> /\ LastCall.call \in TintOrTransformCalls) =>
        /\ shapeBuf = LastCall.shapeBuf
        /\ imageBuf = LastCall.imageBuf

\* A triangle was appended with the Color object that the shape renderer still
\* holds, and that object was then given another value.
C20_Witness ==
    /\ history # <<>>
    /\ LastCall.call = "mutateColor"
    /\ shapeBuf # <<>>
    /\ shapeColor = color
    /\ shapeBuf[1].color # colors[color]

(***************************************************************************)
(* C21                                                                     *)
(***************************************************************************)

\* The Graphics calls that are drawing methods ("overflow": drawFilledCircle,
\* drawCircle, drawFilledPolygon, drawPolygon).
IsDrawCall(e) == e.call \in {"shape", "image", "target", "text", "overflow"}

\* C21: every public Graphics drawing method flushes the other batch,
\* delegates once to the renderer and returns.
C21_DrawReturns == (history # <<>> /\ IsDrawCall(LastCall)) => ~thrown

(***************************************************************************)
(* C22                                                                     *)
(***************************************************************************)

\* The last call was one of the shape renderer's circle or polygon methods
\* with parameters that describe no shape.
LastShapeInvalid ==
    /\ history # <<>>
    /\ \/ /\ LastCall.call \in {"circle", "solidCircle"}
          /\ \/ LastCall.arg.radius <= 0
             \/ LastCall.arg.segments < 3
             \/ (LastCall.call = "circle" /\ LastCall.arg.lineWidth <= 0)
       \/ /\ LastCall.call \in {"polygon", "solidPolygon"}
          /\ LastCall.arg.count < 3

\* The last call left the shape batch as it was and issued no draw call.
ShapeBatchUntouched ==
    /\ shapeIndex = LastCall.shapeIndex
    /\ shapeBuf = LastCall.shapeBuf
    /\ Len(drawCalls) = LastCall.calls

\* C22: a circle with radius <= 0 or segments < 3, an unfilled circle with
\* line width <= 0 and a polygon with fewer than 3 vertices leave the shape
\* batch's cursor and buffer unchanged, cause no flush and raise no exception.
C22_InvalidShapeNoOp == LastShapeInvalid => (ShapeBatchUntouched /\ ~thrown)

(***************************************************************************)
(* C23                                                                     *)
(***************************************************************************)

\* Triangles the last call appended: those still pending and those it flushed.
RECURSIVE SumCounts(_)
SumCounts(calls) == IF calls = <<>> THEN 0 ELSE Head(calls).count + SumCounts(Tail(calls))

AppendedByLast ==
    shapeIndex + SumCounts(CallsDuring(Len(history))) - LastCall.shapeIndex

\* Sides of positive length of the rectangle of the last call.
ProperSides(arg) ==
    (IF arg.width # 0 THEN 2 ELSE 0) + (IF arg.height # 0 THEN 2 ELSE 0)

\* C23: drawLine with equal end points appends no triangle and leaves the
\* shape batch's cursor unchanged, for every alignment and line width; an
\* unfilled rectangle emits triangles for its sides of positive length only.
C23_ZeroLengthLine ==
    /\ ( /\ history # <<>>
         /\ LastCall.call = "line"
         /\ LastCall.arg.x1 = LastCall.arg.x2
         /\ LastCall.arg.y1 = LastCall.arg.y2 ) => ShapeBatchUntouched
    /\ (history # <<>> /\ LastCall.call = "rect") =>
          AppendedByLast = 2 * ProperSides(LastCall.arg)

(***************************************************************************)
(* C24: start()                                                            *)
(***************************************************************************)

LastWasStart == history # <<>> /\ LastCall.call = "start"

\* The surface the projection must be sized to, read from the target stack
\* as it was when start() was called.
SurfaceBefore(e) ==
    IF e.targetStack = <<>> THEN Canvas ELSE e.targetStack[Len(e.targetStack)]

\* C24: after Graphics.start(), whatever the state before, both batches are
\* Idle: both write cursors are 0 and the image batch has no bound image and
\* no bound target; the geometry that was pending is gone and no draw call
\* was issued for it; and both renderers hold the projection sized to the top
\* render target, or to the canvas when the target stack is empty.
C24_StartResets ==
    LastWasStart =>
        /\ ~thrown
        /\ shapeIndex = 0 /\ shapeBuf = <<>>
        /\ imageIndex = 0 /\ imageBuf = <<>>
        /\ currentImage = None /\ currentTarget = None
        /\ Len(drawCalls) = LastCall.calls
        /\ shapeProjection = SurfaceBefore(LastCall)
        /\ imageProjection = SurfaceBefore(LastCall)

\* start() called with geometry pending and a render target on the stack.
C24_Witness ==
    /\ LastWasStart
    /\ LastCall.imageIndex > 0
    /\ LastCall.targetStack # <<>>
    /\ imageProjection \in Targets

\* start() called with shape geometry pending and the target stack empty.
C24_WitnessCanvas ==
    /\ LastWasStart
    /\ LastCall.shapeIndex > 0
    /\ LastCall.targetStack = <<>>
    /\ shapeProjection = Canvas

(***************************************************************************)
(* C25: flip = 'both'                                                      *)
(***************************************************************************)

UnitFrame == [x |-> 0, y |-> 0, width |-> 1, height |-> 1]
UnitSize == [x |-> 1, y |-> 1]

\* The corner of the unflipped image that a flip shows at corner k: read off
\* getFlippedUV on a frame whose four corners differ.
CornerPermutation(flip) ==
    [k \in Corners |->
        CHOOSE j \in Corners :
            GetFlippedUV(UnitFrame, UnitSize, flip, k, NoVec2)
                = GetFlippedUV(UnitFrame, UnitSize, "none", j, NoVec2)]

Unflipped(p, corner) ==
    GetFlippedUV(p.frame, p.textureSize, "none", corner, NoVec2)

EarlierUV(p, flipX, flipY, corner) ==
    EarlierGetFlippedUV(p.frame.x, p.frame.y, p.frame.width, p.frame.height,
                        p.textureSize.x, p.textureSize.y, flipX, flipY, corner,
                        NoVec2)

\* C25: for every frame and texture size, the UV that getFlippedUV gives
\* corner k under flip 'both' is the UV it gives corner (k + 2) mod 4 under
\* flip 'none' (0 <-> 2, 1 <-> 3), and that is the corner reached by applying
\* the corner permutation of 'horizontal' and then the one of 'vertical'.
\* The earlier getFlippedUV(flipX, flipY) agrees.
C25_FlipBoth ==
    (probe.fn = "getFlippedUV" /\ probe.flip = "both") =>
        /\ probe.out = Unflipped(probe, (probe.pointOffset + 2) % 4)
        /\ probe.out =
             Unflipped(probe, CornerPermutation("vertical")[
                                 CornerPermutation("horizontal")[probe.pointOffset]])
        /\ CornerPermutation("both")[probe.pointOffset] =
             CornerPermutation("horizontal")[
                 CornerPermutation("vertical")[probe.pointOffset]]
        /\ EarlierUV(probe, TRUE, TRUE, probe.pointOffset) = probe.out
        /\ EarlierUV(probe, FALSE, FALSE, (probe.pointOffset + 2) % 4) = probe.out

\* 'both' applied to a frame whose corners differ, so that a wrong corner
\* shows.
C25_Witness ==
    /\ probe.fn = "getFlippedUV"
    /\ probe.flip = "both"
    /\ probe.frame.width > 0 /\ probe.frame.height > 0
    /\ probe.pointOffset = 0
    /\ probe.out = Unflipped(probe, 2)
    /\ probe.out # Unflipped(probe, 0)

(***************************************************************************)
(* C26, C27: the cursor of drawBitmapText                                  *)
(***************************************************************************)

HasGlyph(p, i) == GetCharData(p.font, p.text[i]) # NoCharData

Glyph(p, i) == GetCharData(p.font, p.text[i])

\* The characters of the text that have a glyph, in order.
DrawnIndices(p) == SelectSeq([i \in 1..Len(p.text) |-> i], LAMBDA i : HasGlyph(p, i))

\* The kerning of the pair (previous character of the text, character i).
PairKerning(p, i) ==
    IF i = 1 THEN 0 ELSE GetKerning(p.font, p.text[i - 1], p.text[i])

\* The cursor when character i is reached: kerning and advance of every
\* glyph drawn before it.
RECURSIVE CursorAt(_, _)
CursorAt(p, i) ==
    IF i = 1 THEN 0
    ELSE CursorAt(p, i - 1)
            + (IF HasGlyph(p, i - 1)
               THEN PairKerning(p, i - 1) + Glyph(p, i - 1).xAdvance ELSE 0)

TheExampleFont(f) ==
    /\ f.chars["A"].xAdvance = 10 /\ f.chars["A"].xOffset = 0
    /\ f.chars["B"].xAdvance = 8 /\ f.chars["B"].xOffset = 0
    /\ GetKerning(f, "A", "B") = -2

\* C26: drawBitmapText appends one quad per character that has a glyph, in
\* text order, and the left edge of the quad of character i is position.x +
\* cursor + glyph.xOffset, where the cursor starts at 0, takes the kerning of
\* the pair (character i - 1, character i) before the glyph is placed (0 for
\* the first character) and the glyph's xAdvance after it. With advance(A) =
\* 10, advance(B) = 8 and kerning(A, B) = -2, "AB" at x = 0 has A at 0 and B
\* at 8.
C26_TextCursor ==
    probe.fn = "drawBitmapText" =>
        /\ Len(probe.quads) = Len(DrawnIndices(probe))
        /\ \A k \in 1..Len(probe.quads) :
              LET i == DrawnIndices(probe)[k]
              IN  /\ probe.quads[k].i = i
                  /\ probe.quads[k].left =
                        probe.position.x + CursorAt(probe, i) + PairKerning(probe, i)
                            + Glyph(probe, i).xOffset
        /\ (TheExampleFont(probe.font) /\ probe.text = <<"A", "B">>
                /\ probe.position.x = 0) =>
              (probe.quads[1].left = 0 /\ probe.quads[2].left = 8)

\* "AB" drawn at x = 0 with the font of the example.
C26_Witness ==
    /\ probe.fn = "drawBitmapText"
    /\ TheExampleFont(probe.font)
    /\ probe.text = <<"A", "B">>
    /\ probe.position.x = 0
    /\ Len(probe.quads) = 2
    /\ probe.quads[2].left = 8

\* The last character before i that has a glyph, 0 if there is none.
LastGlyphBefore(p, i) ==
    LET earlier == {j \in 1..(i - 1) : HasGlyph(p, j)}
    IN  IF earlier = {} THEN 0 ELSE CHOOSE j \in earlier : \A h \in earlier : h <= j

\* The kerning of the pair (last character before i with a glyph, character i).
GlyphKerning(p, i) ==
    IF LastGlyphBefore(p, i) = 0 THEN 0
    ELSE GetKerning(p.font, p.text[LastGlyphBefore(p, i)], p.text[i])

\* C27: a character without a glyph appends no quad and leaves the cursor
\* as it was, and the kerning taken for a drawn glyph is that of the pair
\* (last preceding character that has a glyph, this character): in "A?B",
\* where '?' has no glyph, B is placed with kerning(A, B).
C27_SkippedGlyph ==
    probe.fn = "drawBitmapText" =>
        /\ Len(probe.quads) = Len(DrawnIndices(probe))
        /\ \A k \in 1..Len(probe.quads) :
              probe.quads[k].kerning = GlyphKerning(probe, probe.quads[k].i)

(***************************************************************************)
(* C28: matrices returned to the pool                                      *)
(***************************************************************************)

InPool(pl, mat) == \E k \in 1..Len(pl) : pl[k] = mat

\* The Mat4 object that the vertices of call e are transformed with: the top
\* of the stack for the methods that hand it to the renderer, and for the
\* others the one the renderer still holds.
ActiveTransform(e) ==
    IF e.call \in {"target", "text"} THEN e.imageTransform
    ELSE e.transformStack[Len(e.transformStack)]

\* C28: no draw call transforms its vertices with a matrix that popTransform
\* has returned to the Mat4 pool: whenever a Graphics draw call appends
\* vertices, the matrix object its renderer uses is not in Mat4.POOL.
C28_NoUseAfterRelease ==
    \A i \in 1..Len(history) :
        (history[i].call \in {"shape", "image", "target", "text"}
            /\ history[i].n > 0)
            => ~InPool(history[i].pool, ActiveTransform(history[i]))

(***************************************************************************)
(* C29: drawImage with a size                                              *)
(***************************************************************************)

\* The frame drawn: the one given, or the whole image.
FrameOf(p) ==
    IF p.frame.given THEN p.frame.value
    ELSE [x |-> 0, y |-> 0, width |-> p.image.width, height |-> p.image.height]

\* The size the quad is to span: the one given, or the frame's.
SpanOf(p) ==
    IF p.size.given THEN p.size.value
    ELSE [x |-> FrameOf(p).width, y |-> FrameOf(p).height]

ImageDims(p) == [x |-> p.image.width, y |-> p.image.height]

FrameInsideImage(p) ==
    /\ FrameOf(p).x + FrameOf(p).width <= p.image.width
    /\ FrameOf(p).y + FrameOf(p).height <= p.image.height

\* 0 <= n / d <= 1, for d > 0.
InUnitInterval(q) == 0 <= q[1] /\ q[1] <= q[2]

\* drawScaledImageSection called with the arguments of the probed drawImage.
EarlierQuad(p) ==
    DrawScaledImageSectionQuad(p.position.x, p.position.y, SpanOf(p).x, SpanOf(p).y,
                               FrameOf(p).x, FrameOf(p).y,
                               FrameOf(p).width, FrameOf(p).height,
                               p.flip \in {"horizontal", "both"},
                               p.flip \in {"vertical", "both"}, p.image)

\* C29: the quad of drawImage(image, position, flip, frame, size) spans
\* size.x by size.y from position when size is given and the frame without
\* it; its four texture coordinates are the frame's corners divided by the
\* image's width and height, whatever the size, and lie in [0, 1] when the
\* frame lies inside the image; and the quad is the one the earlier
\* drawScaledImageSection appends for the same arguments.
C29_ScaledImage ==
    probe.fn = "drawImage" =>
        /\ probe.quad[1].pos = Point(probe.position.x, probe.position.y)
        /\ probe.quad[3].pos = Point(probe.position.x + SpanOf(probe).x,
                                     probe.position.y + SpanOf(probe).y)
        /\ \A k \in Corners :
              /\ SameVec2(probe.quad[k + 1].uv,
                          GetFlippedUV(FrameOf(probe), ImageDims(probe),
                                       probe.flip, k, NoVec2))
              /\ FrameInsideImage(probe) =>
                    (InUnitInterval(probe.quad[k + 1].uv.x)
                        /\ InUnitInterval(probe.quad[k + 1].uv.y))
              /\ probe.quad[k + 1].pos = EarlierQuad(probe)[k + 1].pos
              /\ SameVec2(probe.quad[k + 1].uv, EarlierQuad(probe)[k + 1].uv)

(***************************************************************************)
(* C30: Rectangle.intersectsLine                                           *)
(***************************************************************************)

\* Twice the signed area of the triangle a, b, c.
Cross(a, b, c) == (b.x - a.x) * (c.y - a.y) - (b.y - a.y) * (c.x - a.x)

Sign(n) == IF n > 0 THEN 1 ELSE IF n < 0 THEN -1 ELSE 0

Min(a, b) == IF a < b THEN a ELSE b
Max(a, b) == IF a > b THEN a ELSE b

\* c lies in the bounding box of a and b.
InBox(a, b, c) ==
    /\ Min(a.x, b.x) <= c.x /\ c.x <= Max(a.x, b.x)
    /\ Min(a.y, b.y) <= c.y /\ c.y <= Max(a.y, b.y)

\* The closed segments a-b and c-d have a point in common.
SegmentsMeet(a, b, c, d) ==
    \/ /\ Sign(Cross(a, b, c)) # Sign(Cross(a, b, d))
       /\ Sign(Cross(c, d, a)) # Sign(Cross(c, d, b))
    \/ Cross(a, b, c) = 0 /\ InBox(a, b, c)
    \/ Cross(a, b, d) = 0 /\ InBox(a, b, d)
    \/ Cross(c, d, a) = 0 /\ InBox(c, d, a)
    \/ Cross(c, d, b) = 0 /\ InBox(c, d, b)

\* The rectangle's four edges.
TopEdge(r) == <<Point(r.x, r.y), Point(r.x + r.width, r.y)>>
RightEdge(r) == <<Point(r.x + r.width, r.y), Point(r.x + r.width, r.y + r.height)>>
BottomEdge(r) == <<Point(r.x, r.y + r.height), Point(r.x + r.width, r.y + r.height)>>
LeftEdge(r) == <<Point(r.x, r.y), Point(r.x, r.y + r.height)>>

Meets(p, edge) == SegmentsMeet(p.origin, p.target, edge[1], edge[2])

StrictlyInside(r, pt) ==
    /\ r.x < pt.x /\ pt.x < r.x + r.width
    /\ r.y < pt.y /\ pt.y < r.y + r.height

\* A segment that starts inside the rectangle and crosses the bottom edge
\* and no other.
LeavesThroughBottomOnly(p) ==
    /\ StrictlyInside(p.rect, p.origin)
    /\ Meets(p, BottomEdge(p.rect))
    /\ ~Meets(p, TopEdge(p.rect))
    /\ ~Meets(p, RightEdge(p.rect))
    /\ ~Meets(p, LeftEdge(p.rect))

\* The segment lies on the line of the edge.
Collinear(p, edge) ==
    Cross(p.origin, p.target, edge[1]) = 0 /\ Cross(p.origin, p.target, edge[2]) = 0

\* A segment of two different points that lies on the line of no edge.
ProperSegment(p) ==
    /\ p.origin # p.target
    /\ \A edge \in {TopEdge(p.rect), RightEdge(p.rect), BottomEdge(p.rect),
                     LeftEdge(p.rect)} : ~Collinear(p, edge)

\* C30: intersectsLine(origin, target) is true if and only if the segment
\* from origin to target has a point in common with the top, right, bottom
\* or left edge of the rectangle; in particular it is true for a segment that
\* starts inside the rectangle and leaves through the bottom edge only.
\* Stated for segments of two different points that lie along no edge.
C30_IntersectsLine ==
    (probe.fn = "intersectsLine" /\ ProperSegment(probe)) =>
        /\ probe.result <=>
              \/ Meets(probe, TopEdge(probe.rect))
              \/ Meets(probe, RightEdge(probe.rect))
              \/ Meets(probe, BottomEdge(probe.rect))
              \/ Meets(probe, LeftEdge(probe.rect))
        /\ LeavesThroughBottomOnly(probe) => probe.result

(***************************************************************************)
(* C36: the image batch's markers                                          *)
(***************************************************************************)

\* C36: after any sequence of drawImage, drawImagePoints, drawRenderTarget,
\* drawBitmapText, commit and start, at most one of currentImage and
\* currentTarget is set, and the image batch's write cursor is above 0
\* exactly when one of them is set.
C36_MarkerInvariant ==
    /\ currentImage = None \/ currentTarget = None
    /\ imageIndex > 0 <=> (currentImage # None \/ currentTarget # None)

(***************************************************************************)
(* C40: BitmapFont.width and drawBitmapText                                *)
(***************************************************************************)

\* The cursor of drawBitmapText after the whole text.
DrawnAdvance(font, text) ==
    LET quads == DrawBitmapTextQuads([x |-> 0], font, text)
    IN  IF quads = <<>> THEN 0 ELSE quads[Len(quads)].after

AllGlyphsKnown(p) == \A i \in 1..Len(p.text) : HasGlyph(p, i)

\* C40: for every font and text, texts with characters that have no glyph
\* included, BitmapFont.width(text) is the cursor advance that drawBitmapText
\* accumulates for the same text: the xAdvance of every drawn glyph plus the
\* kerning applied to it.
C40_WidthIsAdvance ==
    probe.fn = "width" => probe.width = DrawnAdvance(probe.font, probe.text)

(***************************************************************************)
(* C39: the Vec2 pool in linesIntersect                                    *)
(***************************************************************************)

PoolSet(st) == {st.pool[k] : k \in 1..Len(st.pool)}

NoDuplicate(st) ==
    \A j \in 1..Len(st.pool), k \in 1..Len(st.pool) :
        st.pool[j] = st.pool[k] => j = k

\* Two calls of Vec2.get() one after the other.
FirstGet(st) == Vec2Get(st)
SecondGet(st) == Vec2Get(FirstGet(st).st)

\* C39: linesIntersect, and intersectsLine which calls it four times with
\* the same origin and out, give back to the Vec2 pool exactly the vectors
\* they took from it or made, each once, and never a vector of the caller
\* (origin, target, the edge's end points, out): afterwards the pool holds
\* what it held before and the vectors made meanwhile, no object twice, and
\* two calls of Vec2.get() return two different objects.
C39_PoolOwnership ==
    probe.fn = "intersectsLine with pool" =>
        /\ PoolSet(probe.after) \cap CallerVecs = {}
        /\ NoDuplicate(probe.after)
        /\ PoolSet(probe.after) =
              PoolSet(probe.before) \cup ((probe.before.made + 1)..probe.after.made)
        /\ Len(probe.after.pool) =
              Len(probe.before.pool) + (probe.after.made - probe.before.made)
        /\ FirstGet(probe.after).vec # SecondGet(probe.after).vec

(***************************************************************************)
(* C35: Color.fromHex                                                      *)
(***************************************************************************)

\* The byte that two hex digits write.
ByteOf(pair) == 16 * DigitValue(pair[1]) + DigitValue(pair[2])

WellFormedHex(hex) ==
    Len(hex) = 9 /\ hex[1] = "#" /\ \A k \in 2..9 : DigitValue(hex[k]) < 16

\* C35: Color.fromHex('#RRGGBBAA') returns the color whose red, green, blue
\* and alpha are the bytes 0xRR, 0xGG, 0xBB and 0xAA divided by 255, for
\* every pair of hex digits in each place ('#80808080' gives 128 / 255 four
\* times), and throws for a string that is not '#' and eight hex digits.
C35_FromHex ==
    probe.fn = "fromHex" =>
        IF WellFormedHex(probe.hex)
        THEN /\ ~probe.out.threw
             /\ SameNumber(probe.out.color.red, Div(ByteOf(HexGroup(probe.hex, 1)), 255))
             /\ SameNumber(probe.out.color.green, Div(ByteOf(HexGroup(probe.hex, 2)), 255))
             /\ SameNumber(probe.out.color.blue, Div(ByteOf(HexGroup(probe.hex, 3)), 255))
             /\ SameNumber(probe.out.color.alpha, Div(ByteOf(HexGroup(probe.hex, 4)), 255))
        ELSE probe.out.threw

(***************************************************************************)
(* C34: the service registry                                               *)
(***************************************************************************)

\* C34: after any sequence of addService, removeService and clearServices,
\* getService(name) returns the service added last under name, if one was
\* added since the last removeService(name) or clearServices(), and throws
\* 'Service "name" does not exist.' otherwise; calls for one name leave the
\* other names alone.
C34_ServiceRegistry ==
    serviceReturn.call = "getService" =>
        IF added[serviceReturn.name] # Undefined
        THEN ~serviceReturn.threw /\ serviceReturn.value = added[serviceReturn.name]
        ELSE serviceReturn.threw

(***************************************************************************)
(* C38: emit and the handlers registered when it starts                    *)
(***************************************************************************)

\* C38: emit(event, data) invokes, once each and in the order of their
\* registration, the handlers that are registered for the event, active and
\* accepted by their filter when the emit starts, whatever off() and on()
\* calls the callbacks make meanwhile, and no other handler.
C38_EmitSnapshot == emitLog.event # None => emitLog.invoked = emitLog.atStart

(***************************************************************************)
(* C33: the promise of loadAll                                             *)
(***************************************************************************)

AllLoad == \A i \in 1..Len(requested) : requested[i] = "loads"

\* C33: the promise returned by loadAll(assets) is eventually resolved when
\* every asset of the list loads, the empty list included, and eventually
\* rejected when a load fails or has no loader.
C33_LoadAllSettles ==
    (promise = "pending") ~> (promise = IF AllLoad THEN "resolved" ELSE "rejected")

(***************************************************************************)
(* C31: operations addressed to one channel                                *)
(***************************************************************************)

\* The last call was made with a channelId.
Addressed(ret) ==
    /\ ret.call \in {"stop", "pause", "resume", "setVolume", "getVolume"}
    /\ ret.arg.given

\* C31: stop, pause, resume, setVolume and getVolume called with a
\* channelId, 0 included, leave every other channel and the main gain as
\* they were, and setVolume and getVolume write and read the volume of that
\* channel.
C31_ChannelOnly ==
    [][Addressed(audioReturn') =>
          /\ \A other \in ChannelIds \ {audioReturn'.arg.id} : audioChannels'[other] = audioChannels[other]
          /\ mainGain' = mainGain
          /\ audioReturn'.call = "getVolume" => audioReturn'.value = audioChannels[audioReturn'.arg.id].volume
          /\ audioReturn'.call = "setVolume" => audioChannels'[audioReturn'.arg.id].volume \in Volumes]_vars

(***************************************************************************)
(* C32: the free channel                                                   *)
(***************************************************************************)

\* A sound is playing or paused on the channel.
InUse(channel) ==
    \/ channel.source # 0
    \/ channel.paused /\ ~channel.ended /\ channel.sound # None

LowestFree(channels) ==
    CHOOSE i \in ChannelIds : ~InUse(channels[i]) /\ \A j \in 0..(i - 1) : InUse(channels[j])

\* C32: play() without a channelId takes the lowest channel that is not in
\* use, and throws only when every channel is in use; on a new Audio it
\* succeeds.
C32_FreeChannel ==
    [][(audioReturn'.call = "play" /\ ~audioReturn'.arg.given) =>
          IF \E i \in ChannelIds : ~InUse(audioChannels[i])
          THEN ~audioReturn'.threw /\ audioReturn'.id = LowestFree(audioChannels)
          ELSE audioReturn'.threw]_vars

(***************************************************************************)
(* C37: the 'ended' event of a replaced source                             *)
(***************************************************************************)

\* The channel of source s holds another source by now.
Stale(s) ==
    /\ audioChannels[sources[s].channel].source # 0
    /\ audioChannels[sources[s].channel].source # s

\* The 'ended' event of source s is delivered in this step.
Delivered(s) == sources[s].state = "ending" /\ sources'[s].state = "done"

\* C37: the 'ended' event of a source that was replaced on its channel by
\* play() or resume(), whenever it is delivered, leaves the channel as it
\* is: the new sound keeps playing, the old one is not restarted and the
\* loop count is not changed.
C37_StaleEnded ==
    [][\A s \in 1..Len(sources) :
          (Delivered(s) /\ Stale(s)) =>
              audioChannels'[sources[s].channel] = audioChannels[sources[s].channel]]_vars

====
